---------------------------- MODULE Spec2Model ----------------------------
(***************************************************************************)
(* MoonSync cache reconciliation: the annotation decoder, the position     *)
(* decoder, the key normalisation and matching of parseAnnotationFiles,    *)
(* the sync-metadata enrichment and the highlight fingerprint.             *)
(*                                                                         *)
(* Strings of the program are TLA+ strings; a character is a string of     *)
(* length one (SubSeq(s, i, i)).                                           *)
(***************************************************************************)
EXTENDS Integers, Sequences, FiniteSets, TLC

VARIABLES
    hashIn,      \* computeHighlightsHash: the highlight list passed in
    hashOut,     \* its return value, or None before the call returns
    hashPrevIn,  \* the list of the caller's previous call
    hashPrevOut, \* the fingerprint the previous call returned
    curLines,    \* parseAnnotationFile: lines, the decompressed text split on "\n"
    curI,        \* its cursor i, counted from 0
    curHighlights, \* its highlights array
    blockSteps,  \* how many iterations of its block loop have run
    curPc,       \* where it stands: "header", "blocks" or "done"
    files,       \* parseAnnotationFiles: what readdir(cacheDir) returns, in its order
    dirReadable, \* whether readdir(cacheDir) succeeds
    trackBooksWithoutHighlights, \* the flag passed in
    bookDataMap, \* the Map from canonical key to BookData
    filenameToKey, \* the Map from lower-cased NFC filename to canonical key
    next,        \* the index in files of the file the running loop takes next
    resolved,    \* per position file that updated or created a record: the key it used
    result,      \* the returned array, or None before the call returns
    pc,          \* "readdir", "annotations", "positions" or "done"
    enrichBook,  \* enrichFromSyncEntry: the BookData it is applied to
    enrichEntry, \* the BooksSyncEntry it is applied with
    enrichBefore, \* the BookData as it was when the call started
    enrichPc,    \* "call" before the call, "done" after it, "idle" without one
    books,       \* enrichBooksWithSyncData: the BookData array passed in, changed in place
    booksBefore, \* the array as it was when the call started
    trackFlag,   \* its parameter trackBooksWithoutHighlights
    syncFile,    \* the entries books.sync decodes to, or None when it cannot be read
    coverDir,    \* what readdir of the cover directory returns, or None when it fails
    backup,      \* the statistics rows of the latest backup, or None without them
    loaded,      \* which of the three loads have completed
    booksSyncMap, \* the result of parseBooksSyncFile
    localCovers, \* the result of scanLocalCovers
    backupStats, \* the result of extractBackupStatistics
    matchedSyncKeys, \* the Set matchedSyncKeys
    at,          \* the index the running loop of enrichBooksWithSyncData stands at
    counts,      \* result: booksEnriched, coversFound, statisticsFound
    sufficientMetadata, \* the Set of indices, counted from 0
    booksPc,     \* "load", "merge", "discover", "done", or "idle" without a call
    earlier,     \* the calls of parseAnnotationFiles that returned before the running one
    progressIn,  \* parseProgressFile: the content of the position file passed in
    progressOut, \* what the call returned, or None before it returns
    categoryIn, \* parseCategoryField: the category string passed in
    categoryOut, \* what the call returned, or None before it returns
    hcBooks, \* syncBooksToHardcover: the HardcoverSyncItem array passed in
    hcAt, \* the index in booksToSync of the book the loop takes next
    hcSent, \* the calls of updateHardcoverBook made so far: book id, status, progress
    hcResult, \* result: booksUpdated, booksFailed, newIds, notFoundTitles
    hcPc, \* "sync" in the loop, "done" after the return, "idle" without a call
    clock, \* Date.now(), in milliseconds
    lastRequestTime, \* hardcover.ts: the module variable lastRequestTime
    waitUntil, \* per caller of rateLimitDelay: the time its timer is set to, or None outside the wait
    requestTimes, \* the times at which rateLimitDelay returned and the caller sent its request
    upStatusId, \* updateHardcoverBook: the parameter statusId
    upProgress, \* updateHardcoverBook: the parameter progress, in hundredths of a percent
    upFound, \* what the first FIND_USER_BOOK query answered: None while open or failed, Some(user book or None)
    upInserted, \* what INSERT_USER_BOOK answered: None while not answered, Some(user book or None)
    myUserBook, \* updateHardcoverBook: the local myUserBook
    upSent, \* the requests sent so far, by name
    upReturn, \* the value returned, or None
    upPc \* the request the call is about to send: "find", "insert", "refind", "progress"; "done" after the return

hashVars == <<hashIn, hashOut, hashPrevIn, hashPrevOut>>
parseVars == <<curLines, curI, curHighlights, blockSteps, curPc>>

filesVars == <<files, dirReadable, trackBooksWithoutHighlights, bookDataMap, filenameToKey,
               next, resolved, result, pc>>

enrichVars == <<enrichBook, enrichEntry, enrichBefore, enrichPc>>

booksVars == <<books, booksBefore, trackFlag, syncFile, coverDir, backup, loaded,
               booksSyncMap, localCovers, backupStats, matchedSyncKeys, at, counts,
               sufficientMetadata, booksPc>>

callVars == <<earlier>>
progressVars == <<progressIn, progressOut>>

categoryVars == <<categoryIn, categoryOut>>

syncVars == <<hcBooks, hcAt, hcSent, hcResult, hcPc>>

limitVars == <<clock, lastRequestTime, waitUntil, requestTimes>>

updateVars == <<upStatusId, upProgress, upFound, upInserted, myUserBook, upSent, upReturn, upPc>>

vars == <<hashVars, parseVars, filesVars, enrichVars, booksVars, callVars, progressVars, categoryVars, syncVars, limitVars, updateVars>>

besidesHash == <<parseVars, filesVars, enrichVars, booksVars, callVars, progressVars, categoryVars, syncVars, limitVars, updateVars>>
besidesParse == <<hashVars, filesVars, enrichVars, booksVars, callVars, progressVars, categoryVars, syncVars, limitVars, updateVars>>
besidesFiles == <<hashVars, parseVars, enrichVars, booksVars, callVars, progressVars, categoryVars, syncVars, limitVars, updateVars>>
besidesEnrich == <<hashVars, parseVars, filesVars, booksVars, callVars, progressVars, categoryVars, syncVars, limitVars, updateVars>>
besidesBooks == <<hashVars, parseVars, filesVars, enrichVars, callVars, progressVars, categoryVars, syncVars, limitVars, updateVars>>
besidesCalls == <<hashVars, parseVars, enrichVars, booksVars, progressVars, categoryVars, syncVars, limitVars, updateVars>>
besidesProgress == <<hashVars, parseVars, filesVars, enrichVars, booksVars, callVars, categoryVars, syncVars, limitVars, updateVars>>
besidesCategory == <<hashVars, parseVars, filesVars, enrichVars, booksVars, callVars, progressVars, syncVars, limitVars, updateVars>>
besidesSync == <<hashVars, parseVars, filesVars, enrichVars, booksVars, callVars, progressVars, categoryVars, limitVars, updateVars>>
besidesLimit == <<hashVars, parseVars, filesVars, enrichVars, booksVars, callVars, progressVars, categoryVars, syncVars, updateVars>>
besidesUpdate == <<hashVars, parseVars, filesVars, enrichVars, booksVars, callVars, progressVars, categoryVars, syncVars, limitVars>>

SeqsUpTo(S, n) == UNION {[1..k -> S] : k \in 0..n}
IndexPermutations(n) == {p \in [1..n -> 1..n] : \A i, j \in 1..n : p[i] = p[j] => i = j}
Reorderings(q) == {[i \in 1..Len(q) |-> q[p[i]]] : p \in IndexPermutations(Len(q))}

\* a value that may be absent (null, undefined, not yet returned): <<>> or <<v>>
None == <<>>
Some(v) == <<v>>

\* a component that is not running
IdleHash ==
    /\ hashIn = <<>>
    /\ hashOut = None
    /\ hashPrevIn = <<>>
    /\ hashPrevOut = None

IdleParse ==
    /\ curLines = <<>>
    /\ curI = 0
    /\ curHighlights = <<>>
    /\ blockSteps = 0
    /\ curPc = "done"

IdleEnrich ==
    /\ enrichBook = None
    /\ enrichEntry = None
    /\ enrichBefore = None
    /\ enrichPc = "idle"

IdleBooks ==
    /\ books = <<>>
    /\ booksBefore = <<>>
    /\ trackFlag = FALSE
    /\ syncFile = None
    /\ coverDir = None
    /\ backup = None
    /\ loaded = {}
    /\ booksSyncMap = None
    /\ localCovers = {}
    /\ backupStats = None
    /\ matchedSyncKeys = {}
    /\ at = 0
    /\ counts = [booksEnriched |-> 0, coversFound |-> 0, statisticsFound |-> 0]
    /\ sufficientMetadata = {}
    /\ booksPc = "idle"

IdleCalls == earlier = <<>>

IdleProgress ==
    /\ progressIn = ""
    /\ progressOut = Some(None)

IdleCategory ==
    /\ categoryIn = ""
    /\ categoryOut = Some([series |-> None, seriesNumber |-> None, genres |-> <<>>])

IdleSync ==
    /\ hcBooks = <<>>
    /\ hcAt = 1
    /\ hcSent = <<>>
    /\ hcResult = [booksUpdated |-> 0, booksFailed |-> 0, newIds |-> <<>>, notFoundTitles |-> <<>>]
    /\ hcPc = "idle"

IdleLimit ==
    /\ clock = 0
    /\ lastRequestTime = 0
    /\ waitUntil = <<>>
    /\ requestTimes = <<>>

IdleUpdate ==
    /\ upStatusId = 0
    /\ upProgress = 0
    /\ upFound = None
    /\ upInserted = None
    /\ myUserBook = None
    /\ upSent = <<>>
    /\ upReturn = None
    /\ upPc = "idle"

IdleFiles ==
    /\ files = <<>>
    /\ dirReadable = TRUE
    /\ trackBooksWithoutHighlights = FALSE
    /\ bookDataMap = <<>>
    /\ filenameToKey = <<>>
    /\ next = 1
    /\ resolved = {}
    /\ result = Some(<<>>)
    /\ pc = "done"

(***************************************************************************)
(* Characters and strings                                                  *)
(***************************************************************************)
Ch(s, i) == SubSeq(s, i, i)

UpperChars == "ABCDEFGHIJKLMNOPQRSTUVWXYZ"
LowerChars == "abcdefghijklmnopqrstuvwxyz"
DigitChars == "0123456789"

UpperSet == {SubSeq(UpperChars, i, i) : i \in 1..26}
LowerSet == {SubSeq(LowerChars, i, i) : i \in 1..26}
DigitSet == {SubSeq(DigitChars, i, i) : i \in 1..10}

LowerOf == [c \in UpperSet |->
               SubSeq(LowerChars, CHOOSE i \in 1..26 : SubSeq(UpperChars, i, i) = c,
                                  CHOOSE i \in 1..26 : SubSeq(UpperChars, i, i) = c)]
DigitOf == [c \in DigitSet |-> (CHOOSE i \in 1..10 : SubSeq(DigitChars, i, i) = c) - 1]

IsDigit(c) == c \in DigitSet
DigitVal(c) == DigitOf[c]

\* String.prototype.toLowerCase, one character
LowerChar(c) == IF c \in UpperSet THEN LowerOf[c] ELSE c

RECURSIVE toLowerCase(_)
toLowerCase(s) ==
    IF s = "" THEN "" ELSE LowerChar(Ch(s, 1)) \o toLowerCase(SubSeq(s, 2, Len(s)))

\* the decimal rendering of an integer in a template literal
RECURSIVE NatToString(_)
NatToString(n) ==
    IF n < 10 THEN Ch(DigitChars, n + 1)
    ELSE NatToString(n \div 10) \o Ch(DigitChars, (n % 10) + 1)

IntToString(n) == IF n < 0 THEN "-" \o NatToString(-n) ELSE NatToString(n)

\* A JS number that parseInt produced: an integer <<n>>, or NaN
NaN == <<>>
Num(n) == <<n>>
IsNaN(x) == x = NaN
Val(x) == x[1]

NumberToString(x) == IF IsNaN(x) THEN "NaN" ELSE IntToString(Val(x))

\* String.prototype.charCodeAt for the characters a fingerprint is made of
charCode(c) ==
    CASE IsDigit(c) -> 48 + DigitVal(c)
      [] c = "-" -> 45
      [] c = ":" -> 58
      [] c = "|" -> 124
      [] c = "N" -> 78
      [] c = "a" -> 97

(***************************************************************************)
(* parser/annotations.ts: the annotation decoder                           *)
(***************************************************************************)
WhitespaceSet == {" ", "\t", "\n", "\r"}
IsSpace(c) == c \in WhitespaceSet

RECURSIVE TrimStart(_)
TrimStart(s) ==
    IF s # "" /\ IsSpace(Ch(s, 1)) THEN TrimStart(SubSeq(s, 2, Len(s))) ELSE s

RECURSIVE TrimEnd(_)
TrimEnd(s) ==
    IF s # "" /\ IsSpace(Ch(s, Len(s))) THEN TrimEnd(SubSeq(s, 1, Len(s) - 1)) ELSE s

\* String.prototype.trim
Trim(s) == TrimEnd(TrimStart(s))

StartsWith(s, prefix) == Len(s) >= Len(prefix) /\ SubSeq(s, 1, Len(prefix)) = prefix
EndsWith(s, suffix) ==
    Len(s) >= Len(suffix) /\ SubSeq(s, Len(s) - Len(suffix) + 1, Len(s)) = suffix

\* s.replace(/<BR>/g, "\n")
RECURSIVE ReplaceBR(_)
ReplaceBR(s) ==
    IF s = "" THEN ""
    ELSE IF StartsWith(s, "<BR>") THEN "\n" \o ReplaceBR(SubSeq(s, 5, Len(s)))
    ELSE Ch(s, 1) \o ReplaceBR(SubSeq(s, 2, Len(s)))

\* lines[i].replace(/<BR>/g, "\n").trim()
CleanText(line) == Trim(ReplaceBR(line))

\* the value of the leading digits of s, read left to right
RECURSIVE LeadingDigits(_, _)
LeadingDigits(s, acc) ==
    IF s # "" /\ IsDigit(Ch(s, 1))
    THEN LeadingDigits(SubSeq(s, 2, Len(s)), acc * 10 + DigitVal(Ch(s, 1)))
    ELSE acc

\* parseInt(s, 10): leading whitespace, an optional sign, then digits; NaN without a digit
parseInt(s) ==
    LET t == TrimStart(s)
        signed == t # "" /\ Ch(t, 1) \in {"-", "+"}
        body == IF signed THEN SubSeq(t, 2, Len(t)) ELSE t
    IN  IF body = "" \/ ~IsDigit(Ch(body, 1)) THEN NaN
        ELSE IF signed /\ Ch(t, 1) = "-" THEN Num(0 - LeadingDigits(body, 0))
        ELSE Num(LeadingDigits(body, 0))

\* the alternation epub|mobi|pdf|azw3?|fb2|txt
BookExtensions == {"epub", "mobi", "pdf", "azw", "azw3", "fb2", "txt"}

\* s.replace(/\.(epub|mobi|pdf|azw3?|fb2|txt)<tail>$/i, ""), tail a literal such as ".an"
StripExtension(s, tail) ==
    LET lower == toLowerCase(s)
        hits == {e \in BookExtensions : EndsWith(lower, "." \o e \o tail)}
    IN  IF hits = {} THEN s
        ELSE LET e == CHOOSE x \in hits : TRUE
             IN  SubSeq(s, 1, Len(s) - Len(e) - 1 - Len(tail))

normalizeBookTitle(title) == Trim(StripExtension(title, ""))

\* lines[i], with i counted from 0; undefined beyond the end
LineAt(lines, i) == IF i < Len(lines) THEN Some(lines[i + 1]) ELSE None

\* lines[i] without the default for an empty line
LineAsIs(lines, i, dflt) == IF i < Len(lines) THEN lines[i + 1] ELSE dflt

\* lines[i] || dflt
LineOr(lines, i, dflt) == IF i < Len(lines) /\ lines[i + 1] # "" THEN lines[i + 1] ELSE dflt

\* while (i < lines.length && <lines[i] is one of skip>) i++
RECURSIVE SkipLines(_, _, _)
SkipLines(lines, i, skip) ==
    IF i < Len(lines) /\ lines[i + 1] \in skip THEN SkipLines(lines, i + 1, skip) ELSE i

MakeHighlight(id, book, filename, chapter, position, length, color, timestamp, note, text) ==
    [id |-> id, book |-> book, filename |-> filename, chapter |-> chapter,
     position |-> position, highlightLength |-> length, highlightColor |-> color,
     timestamp |-> timestamp, bookmark |-> "", note |-> note, originalText |-> text,
     underline |-> FALSE, strikethrough |-> FALSE]


\* if (text) highlights.push({...})
EmitAlways(highlights, h) == Append(highlights, h)

EmitHighlight(highlights, h) ==
    IF h.originalText # "" THEN Append(highlights, h) ELSE highlights

\* the text and the note read at cursor i, and the cursor after them
TextThenNote(lines, i) ==
    IF i < Len(lines) /\ lines[i + 1] # "0"
    THEN IF i + 1 < Len(lines) /\ lines[i + 2] # "0" /\ lines[i + 2] # ""
         THEN [note |-> CleanText(lines[i + 2]), text |-> CleanText(lines[i + 1]), i |-> i + 2]
         ELSE [note |-> "", text |-> CleanText(lines[i + 1]), i |-> i + 1]
    ELSE [note |-> "", text |-> "", i |-> i]

ReadTextAndNote(lines, i) ==
    IF i < Len(lines) /\ lines[i + 1] # "0"
    THEN IF i + 1 < Len(lines) /\ lines[i + 2] # "0" /\ lines[i + 2] # ""
         THEN [note |-> CleanText(lines[i + 1]), text |-> CleanText(lines[i + 2]), i |-> i + 2]
         ELSE [note |-> "", text |-> CleanText(lines[i + 1]), i |-> i + 1]
    ELSE [note |-> "", text |-> "", i |-> i]

\* } else { i++; }
SameLine(i) == i
NextLine(i) == i + 1

\* one iteration of the block loop, while (i < lines.length), from cursor i:
\* the cursor and the highlights after it, and whether the loop was left by break
BlockStep(lines, i, highlights) ==
    IF lines[i + 1] # "#" THEN [i |-> NextLine(i), highlights |-> highlights, brk |-> FALSE]
    ELSE IF i + 1 >= Len(lines) THEN [i |-> i + 1, highlights |-> highlights, brk |-> TRUE]
    ELSE LET f == i + 1
             id == parseInt(LineOr(lines, f, "0"))
             title == LineOr(lines, f + 1, "")
             fullPath == LineOr(lines, f + 2, "")
             chapter == parseInt(LineOr(lines, f + 4, "0"))
             position == parseInt(LineOr(lines, f + 6, "0"))
             length == parseInt(LineOr(lines, f + 7, "0"))
             color == parseInt(LineOr(lines, f + 8, "0"))
             timestamp == parseInt(LineOr(lines, f + 9, "0"))
             afterBlank == SkipLines(lines, f + 10, {""})
             tn == ReadTextAndNote(lines, afterBlank)
             afterZeros == SkipLines(lines, tn.i, {"0", ""})
             h == MakeHighlight(id, normalizeBookTitle(title), fullPath, chapter, position,
                                length, color, timestamp, tn.note, tn.text)
         IN  [i |-> afterZeros, highlights |-> EmitHighlight(highlights, h), brk |-> FALSE]

\* while (i < lines.length && lines[i] !== "#") i++
RECURSIVE SkipHeader(_, _)
SkipHeader(lines, i) ==
    IF i < Len(lines) /\ lines[i + 1] # "#" THEN SkipHeader(lines, i + 1) ELSE i

\* while (i < lines.length) { ... }
RECURSIVE ParseBlocks(_, _, _)
ParseBlocks(lines, i, highlights) ==
    IF i >= Len(lines) THEN highlights
    ELSE LET r == BlockStep(lines, i, highlights)
         IN  IF r.brk THEN r.highlights ELSE ParseBlocks(lines, r.i, r.highlights)

\* The bytes of an annotation file are [inflates, lines]: whether inflateSync
\* succeeds, and decompressed.split("\n"). A failure is caught and gives null.
parseAnnotationFile(data, filename) ==
    IF ~data.inflates THEN None
    ELSE Some([filename |-> filename,
               bookTitle |-> normalizeBookTitle(StripExtension(filename, ".an")),
               highlights |-> ParseBlocks(data.lines, SkipHeader(data.lines, 0), <<>>)])

(***************************************************************************)
(* parser/annotations.ts: the position decoder and the canonical key       *)
(***************************************************************************)
\* the index after the digits that start at index i of s (i itself without a digit)
RECURSIVE DigitsEnd(_, _)
DigitsEnd(s, i) ==
    IF i <= Len(s) /\ IsDigit(Ch(s, i)) THEN DigitsEnd(s, i + 1) ELSE i

\* the index after \d* followed by the character sep
DigitsOrNoneThen(s, i, sep) ==
    LET e == DigitsEnd(s, i)
    IN  IF i > 0 /\ e <= Len(s) /\ Ch(s, e) = sep THEN e + 1 ELSE 0

\* the index after \d+ followed by the character sep, from index i; 0 without a match
DigitsThen(s, i, sep) ==
    LET e == DigitsEnd(s, i)
    IN  IF i > 0 /\ e > i /\ e <= Len(s) /\ Ch(s, e) = sep THEN e + 1 ELSE 0

\* A progress percentage is kept in hundredths: parseFloat("63.5") is 6350.
Hundredths == 100

\* parseFloat of digits[.digits]
parseFloat(s) ==
    LET e == DigitsEnd(s, 1)
        whole == LeadingDigits(SubSeq(s, 1, e - 1), 0)
        frac == IF e <= Len(s) THEN SubSeq(s \o "00", e + 1, e + 2) ELSE "00"
    IN  whole * Hundredths + LeadingDigits(frac, 0)

\* content.match(/^(\d+)\*(\d+)@\d+#\d+:(\d+(?:\.\d+)?)%$/) on the trimmed content
parseProgressFile(data) ==
    LET content == Trim(data)
        a == DigitsThen(content, 1, "*")
        b == DigitsThen(content, a, "@")
        c == DigitsThen(content, b, "#")
        d == DigitsThen(content, c, ":")
        e == IF d > 0 THEN DigitsEnd(content, d) ELSE 0
        f == IF e > d /\ e <= Len(content) /\ Ch(content, e) = "."
             THEN (IF DigitsEnd(content, e + 1) > e + 1 THEN DigitsEnd(content, e + 1) ELSE 0)
             ELSE e
    IN  IF d > 0 /\ e > d /\ f > 0 /\ f = Len(content) /\ Ch(content, f) = "%"
        THEN Some([timestamp |-> LeadingDigits(SubSeq(content, 1, a - 2), 0),
                   chapter |-> LeadingDigits(SubSeq(content, a, b - 2), 0),
                   progress |-> parseFloat(SubSeq(content, d, f - 1))])
        ELSE None

\* one character of title.toLowerCase().replace(/[^a-z0-9\s]/g, "")
KeptInKey(c) == c \in LowerSet \/ IsDigit(c) \/ IsSpace(c)

RECURSIVE StripPunctuation(_)
StripPunctuation(s) ==
    IF s = "" THEN ""
    ELSE (IF KeptInKey(Ch(s, 1)) THEN Ch(s, 1) ELSE "") \o StripPunctuation(SubSeq(s, 2, Len(s)))

\* s.replace(/\s+/g, " ")
RECURSIVE CollapseSpaces(_)
CollapseSpaces(s) ==
    IF s = "" THEN ""
    ELSE IF IsSpace(Ch(s, 1))
         THEN " " \o CollapseSpaces(TrimStart(s))
         ELSE Ch(s, 1) \o CollapseSpaces(SubSeq(s, 2, Len(s)))

normalizeKey(title) == Trim(CollapseSpaces(StripPunctuation(toLowerCase(title))))

\* Beyond ASCII the model has one letter in its two Unicode forms: "e" followed by
\* the combining acute accent U+0301, written "^", and the composed U+00E9, written "&".
CombiningAcute == "^"
EAcute == "&"

\* String.prototype.normalize("NFC")
RECURSIVE normalizeNFC(_)
normalizeNFC(s) ==
    IF s = "" THEN ""
    ELSE IF StartsWith(s, "e" \o CombiningAcute)
         THEN EAcute \o normalizeNFC(SubSeq(s, 3, Len(s)))
         ELSE Ch(s, 1) \o normalizeNFC(SubSeq(s, 2, Len(s)))

\* filename.toLowerCase().normalize("NFC")
FilenameKey(filename) == normalizeNFC(toLowerCase(filename))

\* s.replace(/\.an$/, "") and s.replace(/\.po$/, "")
StripSuffix(s, suffix) ==
    IF EndsWith(s, suffix) THEN SubSeq(s, 1, Len(s) - Len(suffix)) ELSE s

\* s.indexOf(t), counted from 0; -1 when t does not occur
IndexOf(s, t) ==
    LET hits == {i \in 1..Len(s) : StartsWith(SubSeq(s, i, Len(s)), t)}
    IN  IF hits = {} THEN 0 - 1 ELSE (CHOOSE i \in hits : \A j \in hits : i <= j) - 1

\* s.replace(/_/g, " ")
RECURSIVE UnderscoresToSpaces(_)
UnderscoresToSpaces(s) ==
    IF s = "" THEN ""
    ELSE (IF Ch(s, 1) = "_" THEN " " ELSE Ch(s, 1)) \o UnderscoresToSpaces(SubSeq(s, 2, Len(s)))

(***************************************************************************)
(* A Map is the sequence of its entries [key, value] in insertion order.   *)
(***************************************************************************)
MapHas(map, key) == \E n \in 1..Len(map) : map[n].key = key
MapIndex(map, key) == CHOOSE n \in 1..Len(map) : map[n].key = key
MapGet(map, key) == map[MapIndex(map, key)].value
MapSet(map, key, value) ==
    IF MapHas(map, key)
    THEN [map EXCEPT ![MapIndex(map, key)] = [key |-> key, value |-> value]]
    ELSE Append(map, [key |-> key, value |-> value])
MapKeys(map) == {map[n].key : n \in 1..Len(map)}
MapValues(map) == [n \in 1..Len(map) |-> map[n].value]

(***************************************************************************)
(* utils.ts: computeHighlightsHash                                         *)
(***************************************************************************)
\* the comparator (a, b) => a.position - b.position; sort reads a NaN result as 0
ComparePosition(a, b) ==
    IF IsNaN(a.position) \/ IsNaN(b.position) THEN 0
    ELSE Val(a.position) - Val(b.position)

\* Array.prototype.sort is stable: x goes after every element that does not
\* compare greater than it
RECURSIVE InsertSorted(_, _)
InsertSorted(sorted, x) ==
    IF sorted = <<>> THEN <<x>>
    ELSE IF ComparePosition(Head(sorted), x) <= 0
         THEN <<Head(sorted)>> \o InsertSorted(Tail(sorted), x)
         ELSE <<x>> \o sorted

RECURSIVE SortByPosition(_)
SortByPosition(hs) ==
    IF hs = <<>> THEN <<>>
    ELSE InsertSorted(SortByPosition(SubSeq(hs, 1, Len(hs) - 1)), hs[Len(hs)])

\* h => ${h.position}:${h.timestamp}:${h.originalText.length}
FingerprintPart(h) ==
    NumberToString(h.position) \o ":" \o NumberToString(h.timestamp) \o ":"
        \o IntToString(Len(h.originalText))

RECURSIVE JoinParts(_, _)
JoinParts(parts, sep) ==
    IF parts = <<>> THEN ""
    ELSE IF Len(parts) = 1 THEN parts[1]
    ELSE parts[1] \o sep \o JoinParts(Tail(parts), sep)

Fingerprint(hs) ==
    JoinParts([i \in 1..Len(hs) |-> FingerprintPart(SortByPosition(hs)[i])], "|")

\* A 32-bit integer is kept as its two's complement bit pattern in two 16-bit
\* halves <<high, low>>.
Half == 65536
Djb2Seed == <<0, 5381>>

\* hash = ((hash << 5) + hash) + charCode; hash = hash & hash
Djb2Step(hash, code) ==
    LET low == hash[2] * 33 + code
        high == hash[1] * 33 + (low \div Half)
    IN  <<high % Half, low % Half>>

RECURSIVE Djb2(_, _)
Djb2(hash, s) ==
    IF s = "" THEN hash
    ELSE Djb2(Djb2Step(hash, charCode(Ch(s, 1))), SubSeq(s, 2, Len(s)))

\* Math.abs of the signed 32-bit value, as an unsigned pair
AbsInt32(hash) ==
    IF hash[1] < Half \div 2 THEN hash
    ELSE LET low == (Half - hash[2]) % Half
             high == (Half - 1 - hash[1] + (IF hash[2] = 0 THEN 1 ELSE 0)) % Half
         IN  <<high, low>>

Base36Chars == "0123456789abcdefghijklmnopqrstuvwxyz"

\* Number.prototype.toString(36) of a non-negative value
RECURSIVE ToString36(_)
ToString36(v) ==
    LET qHigh == v[1] \div 36
        rest == (v[1] % 36) * Half + v[2]
        qLow == rest \div 36
        digit == Ch(Base36Chars, (rest % 36) + 1)
    IN  IF qHigh = 0 /\ qLow = 0 THEN digit
        ELSE ToString36(<<qHigh, qLow>>) \o digit

computeHighlightsHash(highlights) ==
    IF Len(highlights) = 0 THEN ""
    ELSE ToString36(AbsInt32(Djb2(Djb2Seed, Fingerprint(highlights))))

(***************************************************************************)
(* parser/annotations.ts: parseAnnotationFiles                             *)
(***************************************************************************)
NewBook(title, filename) ==
    [id |-> 0, title |-> title, filename |-> filename, author |-> "", description |-> "",
     category |-> "", thumbFile |-> "", coverFile |-> "", addTime |-> "", favorite |-> ""]

NewBookData(book, progress, chapter, lastRead) ==
    [book |-> book, highlights |-> <<>>, statistics |-> None, progress |-> progress,
     currentChapter |-> chapter, lastReadTimestamp |-> lastRead, coverPath |-> None,
     fetchedDescription |-> None, publishedDate |-> None, publisher |-> None,
     pageCount |-> None, genres |-> None, series |-> None, isbn10 |-> None,
     isbn13 |-> None, language |-> None, previousTitle |-> None]

\* (parsed.highlights.length > 0 ? parsed.highlights[0]?.book : null) || parsed.bookTitle
ActualTitle(parsed) ==
    IF Len(parsed.highlights) > 0 /\ parsed.highlights[1].book # ""
    THEN parsed.highlights[1].book
    ELSE parsed.bookTitle

\* if (!bookDataMap.has(key))
AlwaysNew(map, key) == TRUE

IsNewKey(map, key) == ~MapHas(map, key)

\* bookData.highlights.push(...parsed.highlights)
PushOver(highlights, pushed) == pushed
PushAll(highlights, pushed) == highlights \o pushed

\* the body of the loop over anFiles for one file: file is what the file system
\* holds under the name, [readable, data]; a failed read is caught and skips it
AnnotationStep(map, anFile, file) ==
    LET parsed == parseAnnotationFile(file.data, anFile)
    IN  IF ~file.readable \/ parsed = None THEN map
        ELSE LET actualTitle == ActualTitle(parsed[1])
                 key == normalizeKey(actualTitle)
                 created ==
                     IF IsNewKey(map, key)
                     THEN MapSet(map, key,
                              NewBookData(NewBook(actualTitle, StripSuffix(anFile, ".an")),
                                          None, None, None))
                     ELSE map
                 bookData == MapGet(created, key)
             IN  IF Len(parsed[1].highlights) > 0
                 THEN MapSet(created, key,
                          [bookData EXCEPT !.highlights = PushAll(@, parsed[1].highlights)])
                 ELSE created

\* for (const [mapKey, bookData] of bookDataMap) filenameToKey.set(...)
RECURSIVE BuildFilenameIndex(_, _)
BuildFilenameIndex(map, index) ==
    IF map = <<>> THEN index
    ELSE BuildFilenameIndex(Tail(map),
             IF map[1].value.book.filename # ""
             THEN MapSet(index, FilenameKey(map[1].value.book.filename), map[1].key)
             ELSE index)

\* the title a position file name gives
PositionTitle(poFile) ==
    LET baseName == StripExtension(poFile, ".po")
    IN  IF IndexOf(baseName, " ") < 0 /\ IndexOf(baseName, "_") >= 0
        THEN UnderscoresToSpaces(baseName)
        ELSE baseName

\* filenameToKey.get(epubFilename) || normalizeKey(bookTitle)
FirstKey(index, poFile) ==
    LET epubFilename == FilenameKey(StripSuffix(poFile, ".po"))
    IN  IF MapHas(index, epubFilename) /\ MapGet(index, epubFilename) # ""
        THEN MapGet(index, epubFilename)
        ELSE normalizeKey(PositionTitle(poFile))

\* the key after the retry on the title without its " - Author" part
ResolveKey(map, index, poFile) ==
    LET key == FirstKey(index, poFile)
        bookTitle == PositionTitle(poFile)
        dashIdx == IndexOf(bookTitle, " - ")
        titleOnlyKey == normalizeKey(Trim(SubSeq(bookTitle, 1, dashIdx)))
    IN  IF ~MapHas(map, key) /\ dashIdx > 0 /\ MapHas(map, titleOnlyKey)
        THEN titleOnlyKey
        ELSE key

\* x || 0 for a number that may be null
OrZero(x) == IF x = None THEN 0 ELSE x[1]

\* fileMtime > existingTimestamp ||
\* (fileMtime === existingTimestamp && progressData.progress > (bookData.progress || 0))
HigherProgressWins(fileMtime, progress, bookData) ==
    progress > OrZero(bookData.progress)

IsMoreRecent(fileMtime, progress, bookData) ==
    LET existingTimestamp == OrZero(bookData.lastReadTimestamp)
    IN  \/ fileMtime > existingTimestamp
        \/ fileMtime = existingTimestamp /\ progress > OrZero(bookData.progress)

\* const fileStat = await stat(poPath)
StatUnchecked(file) == file.readable /\ parseProgressFile(file.data) # None

\* whether the body of the loop over poFiles gets past readFile, the decoder and stat
\* with a progress; file is [readable, data, statOk, mtimeMs]
HasProgress(file) == file.readable /\ file.statOk /\ parseProgressFile(file.data) # None

\* bookData.progress = ...; bookData.currentChapter = ...; bookData.lastReadTimestamp = ...
WithProgressAlone(bookData, progressData, fileMtime) ==
    [bookData EXCEPT !.progress = Some(progressData.progress)]
WithProgress(bookData, progressData, fileMtime) ==
    [bookData EXCEPT !.progress = Some(progressData.progress),
                     !.currentChapter = Some(progressData.chapter),
                     !.lastReadTimestamp = Some(fileMtime)]

\* the body of the loop over poFiles for one file; a failed read or stat is caught
\* and skips it
PositionStep(map, index, flag, poFile, file) ==
    LET key == ResolveKey(map, index, poFile)
        progressData == parseProgressFile(file.data)[1]
        fileMtime == file.mtimeMs
    IN  IF ~HasProgress(file) THEN map
        ELSE IF MapHas(map, key)
        THEN LET bookData == MapGet(map, key)
             IN  IF IsMoreRecent(fileMtime, progressData.progress, bookData)
                 THEN MapSet(map, key, WithProgress(bookData, progressData, fileMtime))
                 ELSE map
        ELSE IF flag
        THEN MapSet(map, key,
                 NewBookData(NewBook(PositionTitle(poFile), StripSuffix(poFile, ".po")),
                             Some(progressData.progress), Some(progressData.chapter),
                             Some(fileMtime)))
        ELSE map

\* for (const bookData of bookDataMap.values()) bookData.highlights.sort(...)
KeepHighlightOrder(map) == map

SortHighlights(map) ==
    [n \in 1..Len(map) |->
        [key |-> map[n].key,
         value |-> [map[n].value EXCEPT !.highlights = SortByPosition(@)]]]

\* files.filter((f) => f.endsWith(".an")) and files.filter((f) => f.endsWith(".po"))
IsAn(f) == EndsWith(f, ".an")
IsPo(f) == EndsWith(f, ".po")
anFiles == SelectSeq(files, IsAn)
poFiles == SelectSeq(files, IsPo)

(***************************************************************************)
(* The cache directory.  Each name has one content; a call sees a choice   *)
(* of the names, in the order readdir gives them.                          *)
(***************************************************************************)
MaxAn == 2
MaxPo == 2

Block(id, title, position, timestamp, tail) ==
    <<"#", id, title, "/b/x.epub", "/b/x.epub", "3", "0", position, "4", "1", timestamp>>
        \o tail \o <<"0", "0", "0">>

Inflated(lines) == [readable |-> TRUE, data |-> [inflates |-> TRUE, lines |-> lines]]

AnNames ==
    {"Dune.epub.an", "Dune - FH.mobi.an", "b_1.epub.an", "Rene^.epub.an",
     "Bad.epub.an"}

AnnotationFileAt(name) ==
    CASE name = "Dune.epub.an" ->
             Inflated(<<"Moon+">> \o Block("7", "Dune.epub", "100", "17", <<"", "Fear">>)
                          \o Block("8", "Dune.epub", "5", "18", <<"why", "Spice">>))
      [] name = "Dune - FH.mobi.an" ->
             Inflated(Block("9", "Dune;", "100", "19", <<"Water">>))
      [] name = "b_1.epub.an" ->
             Inflated(Block("3", "!?", "7", "20", <<"Da">>))
      [] name = "Rene^.epub.an" ->
             Inflated(<<"Moon+", "1">>)
      [] name = "Bad.epub.an" ->
             [readable |-> TRUE, data |-> [inflates |-> FALSE, lines |-> <<>>]]
      [] name = "Emma.epub.an" ->
             Inflated(Block("11", "Persuasion", "30", "21", <<"Pen">>))
      [] name = "Persuasion.epub.an" ->
             Inflated(Block("12", "Emma", "40", "22", <<"Hand">>))
      [] name = "Gone.epub.an" ->
             [readable |-> FALSE, data |-> [inflates |-> FALSE, lines |-> <<>>]]

PoNames ==
    {"Dune.epub.po", "Dune - FH.mobi.po", "DUNE.pdf.po", "b_1.epub.po",
     "Ren&.epub.po", "Dune.txt.po"}

Position(data, mtimeMs) ==
    [readable |-> TRUE, data |-> data, statOk |-> TRUE, mtimeMs |-> mtimeMs]

PositionFileAt(name) ==
    CASE name = "Dune.epub.po" -> Position("17*5@0#500:40%", 2)
      [] name = "Dune - FH.mobi.po" -> Position("18*9@0#10:90.5%", 1)
      [] name = "DUNE.pdf.po" -> Position("19*6@0#10:60%\n", 2)
      [] name = "b_1.epub.po" -> Position("20*1@0#1:10%", 3)
      [] name = "Ren&.epub.po" -> Position("21*2@0#3:0%", 1)
      [] name = "Dune.txt.po" -> Position("garbage", 3)
      [] name = "Dune.mobi.po" -> Position("22*3@0#9:150.0%", 4)
      [] name = "Emma.epub.po" -> Position("23*4@0#2:30%", 5)
      [] name = "Dune.fb2.po" ->
             [readable |-> TRUE, data |-> "30*7@0#1:70%", statOk |-> FALSE, mtimeMs |-> 9]
      [] name = "Dune.azw.po" ->
             [readable |-> FALSE, data |-> "31*8@0#1:80%", statOk |-> TRUE, mtimeMs |-> 9]

\* the sequences without repetition of at most n elements of S
OrderedChoices(S, n) ==
    {q \in SeqsUpTo(S, n) : \A j, k \in 1..Len(q) : q[j] = q[k] => j = k}

Init ==
    /\ \/ /\ dirReadable = TRUE
          /\ \E a \in OrderedChoices(AnNames, MaxAn), q \in OrderedChoices(PoNames, MaxPo) :
                 files = a \o q
       \/ /\ dirReadable = FALSE
          /\ files = <<>>
    /\ trackBooksWithoutHighlights \in BOOLEAN
    /\ bookDataMap = <<>>
    /\ filenameToKey = <<>>
    /\ next = 1
    /\ resolved = {}
    /\ result = None
    /\ pc = "readdir"
    /\ IdleHash
    /\ IdleParse
    /\ IdleEnrich
    /\ IdleBooks
    /\ IdleCalls
    /\ IdleProgress
    /\ IdleCategory
    /\ IdleSync
    /\ IdleLimit
    /\ IdleUpdate

\* const files = await readdir(cacheDir); a failure returns []
ReadDir ==
    /\ pc = "readdir"
    /\ IF dirReadable
       THEN pc' = "annotations" /\ result' = result
       ELSE pc' = "done" /\ result' = Some(<<>>)
    /\ UNCHANGED <<files, dirReadable, trackBooksWithoutHighlights, bookDataMap,
                   filenameToKey, next, resolved, besidesFiles>>

\* one iteration of the loop over anFiles
AnnotationFileStep ==
    /\ pc = "annotations"
    /\ next <= Len(anFiles)
    /\ bookDataMap' = AnnotationStep(bookDataMap, anFiles[next], AnnotationFileAt(anFiles[next]))
    /\ next' = next + 1
    /\ UNCHANGED <<files, dirReadable, trackBooksWithoutHighlights, filenameToKey, resolved,
                   result, pc, besidesFiles>>

\* for (const anFile of anFiles): the loop is left after its last element
LoopEndsAnywhere(index, names) == TRUE
LoopEnded(index, names) == index > Len(names)

\* the loop over anFiles has ended: the filename index is built
BuildIndex ==
    /\ pc = "annotations"
    /\ LoopEnded(next, anFiles)
    /\ filenameToKey' = BuildFilenameIndex(bookDataMap, <<>>)
    /\ pc' = "positions"
    /\ next' = 1
    /\ UNCHANGED <<files, dirReadable, trackBooksWithoutHighlights, bookDataMap, resolved,
                   result, besidesFiles>>

\* one iteration of the loop over poFiles
PositionFileStep ==
    /\ pc = "positions"
    /\ next <= Len(poFiles)
    /\ LET poFile == poFiles[next]
           file == PositionFileAt(poFile)
           key == ResolveKey(bookDataMap, filenameToKey, poFile)
       IN  /\ bookDataMap' = PositionStep(bookDataMap, filenameToKey,
                                          trackBooksWithoutHighlights, poFile, file)
           /\ resolved' =
                  IF HasProgress(file) /\ (MapHas(bookDataMap, key) \/ trackBooksWithoutHighlights)
                  THEN resolved \cup {<<poFile, key>>}
                  ELSE resolved
    /\ next' = next + 1
    /\ UNCHANGED <<files, dirReadable, trackBooksWithoutHighlights, filenameToKey, result, pc,
                   besidesFiles>>

\* the loop over poFiles has ended: the highlights are sorted and the values returned
SortAndReturn ==
    /\ pc = "positions"
    /\ next > Len(poFiles)
    /\ bookDataMap' = SortHighlights(bookDataMap)
    /\ result' = Some(MapValues(SortHighlights(bookDataMap)))
    /\ pc' = "done"
    /\ UNCHANGED <<files, dirReadable, trackBooksWithoutHighlights, filenameToKey, next,
                   resolved, besidesFiles>>

Next == ReadDir \/ AnnotationFileStep \/ BuildIndex \/ PositionFileStep \/ SortAndReturn

Spec == Init /\ [][Next]_vars

\* the loops over anFiles and over poFiles, and the function as a whole
RECURSIVE AnnotationPass(_, _)
AnnotationPass(map, names) ==
    IF names = <<>> THEN map
    ELSE AnnotationPass(AnnotationStep(map, Head(names), AnnotationFileAt(Head(names))),
                        Tail(names))

RECURSIVE PositionPass(_, _, _, _)
PositionPass(map, index, flag, names) ==
    IF names = <<>> THEN map
    ELSE PositionPass(PositionStep(map, index, flag, Head(names), PositionFileAt(Head(names))),
                      index, flag, Tail(names))

parseAnnotationFiles(listing, readable, flag) ==
    IF ~readable THEN <<>>
    ELSE LET afterAnnotations == AnnotationPass(<<>>, SelectSeq(listing, IsAn))
             index == BuildFilenameIndex(afterAnnotations, <<>>)
         IN  MapValues(SortHighlights(
                 PositionPass(afterAnnotations, index, flag, SelectSeq(listing, IsPo))))

Range(q) == {q[n] : n \in 1..Len(q)}

\* what a record set is compared by: per record the title, the filename, the
\* highlights and the reading position
RecordSet(records) ==
    {[title |-> r.book.title, filename |-> r.book.filename,
      highlights |-> Range(r.highlights), progress |-> r.progress,
      currentChapter |-> r.currentChapter, lastReadTimestamp |-> r.lastReadTimestamp] :
        r \in Range(records)}

\* C2: for one cache and one flag the returned record set is the same for every order
\* of the annotation files and every order of the position files.
ProcessingOrderIrrelevant ==
    pc = "done" =>
        \A a \in Reorderings(anFiles), q \in Reorderings(poFiles) :
            RecordSet(parseAnnotationFiles(a \o q, dirReadable, trackBooksWithoutHighlights))
                = RecordSet(result[1])

\* the position files that resolved to the record under key, and what they hold
ResolvedTo(key) == {f \in Range(poFiles) : <<f, key>> \in resolved}
ProgressOf(f) == parseProgressFile(PositionFileAt(f).data)[1]
MtimeOf(f) == PositionFileAt(f).mtimeMs
Latest(F) == {f \in F : \A g \in F : MtimeOf(g) <= MtimeOf(f)}
Furthest(F) == {f \in F : \A g \in F : ProgressOf(g).progress <= ProgressOf(f).progress}

\* C3: a record that position files resolved to holds the progress and chapter of a
\* file with the greatest modification time among them and, among those of that
\* time, of one with the highest progress.
LatestPositionKept ==
    \A n \in 1..Len(bookDataMap) :
        LET F == ResolvedTo(bookDataMap[n].key)
            bookData == bookDataMap[n].value
        IN  (pc = "done" /\ F # {}) =>
                \E f \in Furthest(Latest(F)) :
                    /\ bookData.lastReadTimestamp = Some(MtimeOf(f))
                    /\ bookData.progress = Some(ProgressOf(f).progress)
                    /\ bookData.currentChapter = Some(ProgressOf(f).chapter)

OlderFurtherFileLost ==
    /\ pc = "done"
    /\ \E n \in 1..Len(bookDataMap) :
           \E f, g \in ResolvedTo(bookDataMap[n].key) :
               /\ MtimeOf(f) < MtimeOf(g)
               /\ ProgressOf(f).progress > ProgressOf(g).progress
               /\ bookDataMap[n].value.progress = Some(ProgressOf(g).progress)

\* the lookup keys of a position file: its exact title key, its filename in the
\* index, and the key of its title up to the first " - "
TitleKey(poFile) == normalizeKey(PositionTitle(poFile))
TitleOnlyKeys(poFile) ==
    LET bookTitle == PositionTitle(poFile)
        dashIdx == IndexOf(bookTitle, " - ")
    IN  IF dashIdx > 0 THEN {normalizeKey(Trim(SubSeq(bookTitle, 1, dashIdx)))} ELSE {}
MatchesARecord(map, poFile) ==
    \E n \in 1..Len(map) :
        \/ map[n].key = TitleKey(poFile)
        \/ map[n].key \in TitleOnlyKeys(poFile)
        \/ FilenameKey(map[n].value.book.filename) = FilenameKey(StripSuffix(poFile, ".po"))

\* C4: without the flag an iteration of the position loop adds no record; with it, an
\* iteration adds a record only for a file that parses and none of whose lookup keys
\* matches a record.
PositionPassCreation ==
    [][(pc = "positions" /\ next <= Len(poFiles)) =>
          /\ ~trackBooksWithoutHighlights => MapKeys(bookDataMap') = MapKeys(bookDataMap)
          /\ MapKeys(bookDataMap') # MapKeys(bookDataMap) =>
                 /\ trackBooksWithoutHighlights
                 /\ parseProgressFile(PositionFileAt(poFiles[next]).data) # None
                 /\ ~MatchesARecord(bookDataMap, poFiles[next])]_vars

\* the annotation files of the listing that were read and decoded, and their titles
KnownAnNames == AnNames \cup {"Gone.epub.an", "Emma.epub.an", "Persuasion.epub.an"}
DecodedTable ==
    [name \in KnownAnNames |-> parseAnnotationFile(AnnotationFileAt(name).data, name)]
TitleKeyTable ==
    [name \in KnownAnNames |->
        IF DecodedTable[name] = None THEN ""
        ELSE normalizeKey(ActualTitle(DecodedTable[name][1]))]
Decoded(anFile) == DecodedTable[anFile][1]
DecodedFiles ==
    {f \in Range(anFiles) : AnnotationFileAt(f).readable /\ DecodedTable[f] # None}
ResolvedTitleKey(anFile) == TitleKeyTable[anFile]

\* C5: the highlights of two annotation files are in one record exactly if the
\* canonical keys of their resolved titles are equal; no two records have titles
\* with one canonical key, and a record's map key is normalizeKey of its title.
OneRecordPerCanonicalKey ==
    /\ \A n \in 1..Len(bookDataMap) :
           bookDataMap[n].key = normalizeKey(bookDataMap[n].value.book.title)
    /\ \A m, n \in 1..Len(bookDataMap) :
           normalizeKey(bookDataMap[m].value.book.title)
               = normalizeKey(bookDataMap[n].value.book.title) => m = n
    /\ pc = "done" =>
           LET decoded == {<<ResolvedTitleKey(f), Range(Decoded(f).highlights)>> :
                              f \in DecodedFiles}
           IN  /\ \A d \in decoded : MapHas(bookDataMap, d[1])
               /\ \A n \in 1..Len(bookDataMap) :
                      Range(bookDataMap[n].value.highlights)
                          = UNION {d[2] : d \in {e \in decoded : e[1] = bookDataMap[n].key}}

TwoFilesOneRecord ==
    /\ pc = "done"
    /\ Len(bookDataMap) = 1
    /\ \E f, g \in DecodedFiles :
           /\ ActualTitle(Decoded(f)) # ActualTitle(Decoded(g))
           /\ Decoded(f).highlights # <<>>
           /\ Range(Decoded(f).highlights \o Decoded(g).highlights)
                  = Range(bookDataMap[1].value.highlights)

\* C6: a position file that parses and whose name without ".po", lower-cased and in
\* NFC, is the filename of an annotation-derived record updates that record, under
\* the modification-time rule, whatever the record's canonical key.
AnnotationKeys == MapKeys(AnnotationPass(<<>>, anFiles))

FilenameJoinUpdates ==
    pc = "done" =>
        \A f \in Range(poFiles) : \A n \in 1..Len(bookDataMap) :
            (/\ HasProgress(PositionFileAt(f))
             /\ bookDataMap[n].key \in AnnotationKeys
             /\ FilenameKey(StripSuffix(f, ".po")) = bookDataMap[n].value.book.filename)
                => /\ bookDataMap[n].value.lastReadTimestamp # None
                   /\ bookDataMap[n].value.lastReadTimestamp[1] >= MtimeOf(f)

\* C7: in every returned record the highlights are in non-decreasing order of position.
HighlightsSortedByPosition ==
    pc = "done" =>
        \A r \in Range(result[1]) :
            \A j, k \in 1..Len(r.highlights) :
                j < k => Val(r.highlights[j].position) <= Val(r.highlights[k].position)

MergedHighlightsSorted ==
    /\ pc = "done"
    /\ Len(anFiles) = 2
    /\ \E r \in Range(result[1]) :
           /\ Len(r.highlights) = 3
           /\ r.highlights[1].position = Num(5)
           /\ r.highlights[3].position = Num(100)

(***************************************************************************)
(* parseAnnotationFile, one loop iteration at a time, over decompressed    *)
(* texts: a header, a block of the ten fixed lines and what follows them,  *)
(* a further block; and short texts of any lines, which cut blocks off.    *)
(***************************************************************************)
MaxTail == 3
MaxShort == 4

FixedLines(id, position) ==
    <<id, "Dune.epub", "/b/Dune.epub", "/b/dune.epub", "3", "0", position, "20", "1", "17">>

TailLines == {"0", "", "Fear", " my<BR>note ", " ", "<BR>"}
ShortLines == {"#", "0", "", "7", "Fear"}
FurtherBlock == <<"#">> \o FixedLines("8", "50") \o <<"more", "0", "0", "0">>

BlockTexts ==
    {header \o <<"#">> \o FixedLines("7", position) \o tail \o further :
        header \in {<<>>, <<"Moon+">>}, position \in {"100", "5"},
        tail \in SeqsUpTo(TailLines, MaxTail), further \in {<<>>, FurtherBlock}}

InitParse ==
    /\ curLines \in BlockTexts \cup SeqsUpTo(ShortLines, MaxShort)
    /\ curI = 0
    /\ curHighlights = <<>>
    /\ blockSteps = 0
    /\ curPc = "header"
    /\ IdleHash
    /\ IdleFiles
    /\ IdleEnrich
    /\ IdleBooks
    /\ IdleCalls
    /\ IdleProgress
    /\ IdleCategory
    /\ IdleSync
    /\ IdleLimit
    /\ IdleUpdate

\* an iteration of the header loop
ParseHeaderLine ==
    /\ curPc = "header"
    /\ curI < Len(curLines) /\ curLines[curI + 1] # "#"
    /\ curI' = curI + 1
    /\ UNCHANGED <<curLines, curHighlights, blockSteps, curPc, besidesParse>>

\* the header loop ends
ParseHeaderEnd ==
    /\ curPc = "header"
    /\ ~(curI < Len(curLines) /\ curLines[curI + 1] # "#")
    /\ curPc' = "blocks"
    /\ UNCHANGED <<curLines, curI, curHighlights, blockSteps, besidesParse>>

\* an iteration of the block loop
ParseBlock ==
    /\ curPc = "blocks"
    /\ curI < Len(curLines)
    /\ LET r == BlockStep(curLines, curI, curHighlights)
       IN  /\ curI' = r.i
           /\ curHighlights' = r.highlights
           /\ curPc' = IF r.brk THEN "done" ELSE "blocks"
    /\ blockSteps' = blockSteps + 1
    /\ UNCHANGED <<curLines, besidesParse>>

\* the block loop ends and the function returns
ParseReturn ==
    /\ curPc = "blocks"
    /\ curI >= Len(curLines)
    /\ curPc' = "done"
    /\ UNCHANGED <<curLines, curI, curHighlights, blockSteps, besidesParse>>

NextParse == ParseHeaderLine \/ ParseHeaderEnd \/ ParseBlock \/ ParseReturn

SpecParse == InitParse /\ [][NextParse]_vars

\* the first "#" line of the text, counted from 0, and the line j places after it
FirstMark == CHOOSE k \in 0..Len(curLines) :
    /\ k < Len(curLines) => curLines[k + 1] = "#"
    /\ \A j \in 0..(k - 1) : curLines[j + 1] # "#"
After(j) == curLines[FirstMark + j + 1]
HasFixedLines == FirstMark + 10 < Len(curLines)

\* the first line after the fixed lines that is not empty, counted from the mark
TextAt == CHOOSE a \in 11..(Len(curLines) - FirstMark) :
    /\ FirstMark + a < Len(curLines) => After(a) # ""
    /\ \A j \in 11..(a - 1) : After(j) = ""
IsContent(line) == line # "0" /\ line # ""
IsBlank(line) == line = "0" \/ CleanText(line) = ""

BlankTail ==
    /\ HasFixedLines
    /\ \A j \in 11..(Len(curLines) - FirstMark - 1) : IsBlank(After(j))

\* C8: every emitted highlight has a non-empty text, and a block whose fixed lines
\* are followed only by "0" lines, empty lines and lines that are empty once <BR>
\* is replaced and the line trimmed yields no highlight.
EmittedTextNonEmpty ==
    /\ \A k \in 1..Len(curHighlights) : curHighlights[k].originalText # ""
    /\ (curPc = "done" /\ BlankTail) => curHighlights = <<>>

BlankBlockDropped ==
    /\ curPc = "done"
    /\ BlankTail
    /\ \E j \in 11..(Len(curLines) - FirstMark - 1) : After(j) = "<BR>"
    /\ curHighlights = <<>>

OneContentLine ==
    /\ HasFixedLines
    /\ FirstMark + TextAt < Len(curLines)
    /\ IsContent(After(TextAt))
    /\ FirstMark + TextAt + 1 < Len(curLines) => ~IsContent(After(TextAt + 1))

TwoContentLines ==
    /\ HasFixedLines
    /\ FirstMark + TextAt + 1 < Len(curLines)
    /\ IsContent(After(TextAt))
    /\ IsContent(After(TextAt + 1))

FixedFieldsOf(h) ==
    /\ h.id = parseInt(After(1))
    /\ h.chapter = parseInt(After(5))
    /\ h.position = parseInt(After(7))
    /\ h.highlightLength = parseInt(After(8))
    /\ h.highlightColor = parseInt(After(9))
    /\ h.timestamp = parseInt(After(10))

\* C9: one content line after the fixed lines is the highlight text and the note is
\* empty; of two consecutive content lines the first is the note and the second the
\* text; the integer fields are those of the block's lines.
TextAndNoteAssigned ==
    curPc = "done" =>
        /\ (OneContentLine /\ CleanText(After(TextAt)) # "") =>
               /\ Len(curHighlights) >= 1
               /\ curHighlights[1].originalText = CleanText(After(TextAt))
               /\ curHighlights[1].note = ""
               /\ FixedFieldsOf(curHighlights[1])
        /\ (TwoContentLines /\ CleanText(After(TextAt + 1)) # "") =>
               /\ Len(curHighlights) >= 1
               /\ curHighlights[1].note = CleanText(After(TextAt))
               /\ curHighlights[1].originalText = CleanText(After(TextAt + 1))
               /\ FixedFieldsOf(curHighlights[1])

NoteAndTextRead ==
    /\ curPc = "done"
    /\ TwoContentLines
    /\ Len(curHighlights) = 2
    /\ curHighlights[1].note = "my\nnote"
    /\ curHighlights[1].originalText = "Fear"
    /\ curHighlights[1].position = Num(100)
    /\ curHighlights[1].id = Num(7)

(***************************************************************************)
(* The fingerprint under its callers: a list is fingerprinted, handed over *)
(* again in another order, and fingerprinted again.                        *)
(***************************************************************************)
MaxHashLen == 3

HashPositions == {1, 2}
HashTimestamps == {1, 2}
HashTexts == {"a", "bc"}

HashHighlights ==
    {MakeHighlight(Num(1), "Dune", "/b/Dune.epub", Num(1), Num(p), Num(1), Num(0), Num(t), "", x) :
        p \in HashPositions, t \in HashTimestamps, x \in HashTexts}


InitHash ==
    /\ hashIn \in SeqsUpTo(HashHighlights, MaxHashLen)
    /\ hashOut = None
    /\ hashPrevIn = <<>>
    /\ hashPrevOut = None
    /\ IdleParse
    /\ IdleFiles
    /\ IdleEnrich
    /\ IdleBooks
    /\ IdleCalls
    /\ IdleProgress
    /\ IdleCategory
    /\ IdleSync
    /\ IdleLimit
    /\ IdleUpdate

\* the call computeHighlightsHash(highlights) returns
HashCall ==
    /\ hashOut = None
    /\ hashOut' = Some(computeHighlightsHash(hashIn))
    /\ UNCHANGED <<hashIn, hashPrevIn, hashPrevOut>>
    /\ UNCHANGED besidesHash

\* the caller keeps the fingerprint and presents the same highlights in another order
HashReorder ==
    /\ hashOut # None
    /\ hashPrevOut = None
    /\ \E p \in IndexPermutations(Len(hashIn)) :
           hashIn' = [i \in 1..Len(hashIn) |-> hashIn[p[i]]]
    /\ hashPrevIn' = hashIn
    /\ hashPrevOut' = hashOut
    /\ hashOut' = None
    /\ UNCHANGED besidesHash

NextHash == HashCall \/ HashReorder

SpecHash == InitHash /\ [][NextHash]_vars

IsPermutationOf(a, b) ==
    /\ Len(a) = Len(b)
    /\ \E p \in IndexPermutations(Len(a)) : \A i \in 1..Len(a) : a[i] = b[p[i]]

\* C1: the fingerprint of a highlight list equals the fingerprint of each of its
\* permutations, also when two highlights share a position.
HashOrderIndependent ==
    (hashOut # None /\ hashPrevOut # None /\ IsPermutationOf(hashIn, hashPrevIn))
        => hashOut = hashPrevOut

(***************************************************************************)
(* books-sync.ts and enrichment.ts: parseCategoryField, enrichFromSyncEntry *)
(***************************************************************************)
HexSet == DigitSet \cup {"a", "b", "c", "d", "e", "f", "A", "B", "C", "D", "E", "F", "-"}

\* /^[0-9a-f-]{16,}$/i.test(s)
IsHexLike(s) == Len(s) >= 16 /\ \A i \in 1..Len(s) : Ch(s, i) \in HexSet

\* s.split("\n")
RECURSIVE SplitLines(_, _)
SplitLines(s, line) ==
    IF s = "" THEN <<line>>
    ELSE IF Ch(s, 1) = "\n" THEN <<line>> \o SplitLines(SubSeq(s, 2, Len(s)), "")
    ELSE SplitLines(SubSeq(s, 2, Len(s)), line \o Ch(s, 1))

RECURSIVE TrimEach(_)
TrimEach(lines) ==
    IF lines = <<>> THEN <<>> ELSE <<Trim(Head(lines))>> \o TrimEach(Tail(lines))

NonEmpty(l) == l # ""

\* parseFloat of any string, in hundredths: leading whitespace, an optional sign,
\* digits with an optional fraction or a fraction alone; NaN without a digit
ParseNumber(s) ==
    LET t == TrimStart(s)
        signed == t # "" /\ Ch(t, 1) \in {"-", "+"}
        body == IF signed THEN SubSeq(t, 2, Len(t)) ELSE t
        e == DigitsEnd(body, 1)
        f == IF e <= Len(body) /\ Ch(body, e) = "." THEN DigitsEnd(body, e + 1) ELSE e
        digits == (e - 1) + (IF f > e THEN f - e - 1 ELSE 0)
        magnitude == parseFloat(SubSeq(body, 1, f - 1))
    IN  IF digits = 0 THEN NaN
        ELSE IF signed /\ Ch(t, 1) = "-" THEN Num(0 - magnitude)
        ELSE Num(magnitude)

\* a number in hundredths as a template literal prints it: 150 is "1.5", 100 is "1"
FormatNumber(h) ==
    LET m == IF h < 0 THEN 0 - h ELSE h
        whole == NatToString(m \div Hundredths)
        frac == m % Hundredths
    IN  (IF h < 0 THEN "-" ELSE "")
            \o whole
            \o (IF frac = 0 THEN ""
                ELSE IF frac % 10 = 0 THEN "." \o NatToString(frac \div 10)
                ELSE IF frac < 10 THEN ".0" \o NatToString(frac)
                ELSE "." \o NatToString(frac))

\* the loop over the lines of parseCategoryField
RECURSIVE ClassifyLines(_, _)
ClassifyLines(lines, parsed) ==
    IF lines = <<>> THEN parsed
    ELSE LET line == Head(lines)
             inner == SubSeq(line, 2, Len(line) - 1)
         IN  ClassifyLines(Tail(lines),
                 IF StartsWith(line, "<") /\ EndsWith(line, ">")
                 THEN [parsed EXCEPT !.series = Some(inner)]
                 ELSE IF StartsWith(line, "#") /\ EndsWith(line, "#")
                 THEN (IF IsNaN(ParseNumber(inner)) THEN parsed
                       ELSE [parsed EXCEPT !.seriesNumber = Some(Val(ParseNumber(inner)))])
                 ELSE [parsed EXCEPT !.genres = @ \o <<line>>])

\* the lines kept as they are, without .map(l => l.trim())
parseCategoryUntrimmed(category) ==
    ClassifyLines(SelectSeq(SplitLines(category, ""), NonEmpty),
                  [series |-> None, seriesNumber |-> None, genres |-> <<>>])

parseCategoryField(category) ==
    ClassifyLines(SelectSeq(TrimEach(SplitLines(category, "")), NonEmpty),
                  [series |-> None, seriesNumber |-> None, genres |-> <<>>])

\* parsed.seriesNumber ? (parsed.series + " #" + parsed.seriesNumber) : parsed.series
SeriesLabel(parsed) ==
    IF parsed.seriesNumber # None /\ parsed.seriesNumber[1] # 0
    THEN parsed.series[1] \o " #" \o FormatNumber(parsed.seriesNumber[1])
    ELSE parsed.series[1]

\* the override without the test against the hash pattern
OverridesAnyName(bookData, entry) ==
    /\ entry.bookName # ""
    /\ entry.bookName # bookData.book.title
    /\ Len(entry.bookName) >= 3

\* if (entry.bookName && entry.bookName !== bookData.book.title && ...)
OverridesTitle(bookData, entry) ==
    /\ entry.bookName # ""
    /\ entry.bookName # bookData.book.title
    /\ Len(entry.bookName) >= 3
    /\ ~IsHexLike(entry.bookName)

\* if (!current && value) current = value
FillAlways(current, value) == IF value # "" THEN value ELSE current

FillIfEmpty(current, value) == IF current = "" /\ value # "" THEN value ELSE current

\* genres and series are null or a value; null and the empty string are falsy
IsFalsy(field) == field = None \/ field = Some("")

enrichFromSyncEntry(bookData, entry) ==
    LET titled ==
            IF OverridesTitle(bookData, entry)
            THEN [bookData EXCEPT !.previousTitle = Some(bookData.book.title),
                                  !.book.title = entry.bookName]
            ELSE bookData
        filled ==
            [titled EXCEPT !.book.author = FillIfEmpty(@, entry.author),
                           !.book.description = FillIfEmpty(@, entry.description),
                           !.book.category = FillIfEmpty(@, entry.category)]
        parsed == parseCategoryField(entry.category)
        withGenres ==
            IF entry.category # "" /\ filled.genres = None /\ Len(parsed.genres) > 0
            THEN [filled EXCEPT !.genres = Some(parsed.genres)]
            ELSE filled
        withSeries ==
            IF entry.category # "" /\ IsFalsy(withGenres.series) /\ ~IsFalsy(parsed.series)
            THEN [withGenres EXCEPT !.series = Some(SeriesLabel(parsed))]
            ELSE withGenres
    IN  [withSeries EXCEPT !.book.favorite = FillIfEmpty(@, entry.favorite)]

\* The records and entries a call is made with
EntryBookNames == {"", "ab", "Dune", "Arrakis", "0123456789ABCDEF-", "0123456789abcdef"}
EntryCategories == {"", "<Saga>\n#1.50#\n SciFi \n\nEpic", "<Saga>\n#0#", "#x#\nSolo"}

SyncEntries ==
    {[filename |-> "Dune.epub", bookName |-> n, author |-> a, description |-> d,
      category |-> c, addTime |-> "", favorite |-> f] :
        n \in EntryBookNames, a \in {"", "Herbert"}, d \in {"", "new"},
        c \in EntryCategories, f \in {"", "2"}}

EnrichedBooks ==
    {[NewBookData(NewBook("Dune", "dune.epub"), None, None, None)
        EXCEPT !.book.author = a, !.book.description = d, !.book.category = c,
               !.book.favorite = f, !.genres = g, !.series = s] :
        a \in {"", "FH"}, d \in {"", "old"}, c \in {"", "Old"}, f \in {"", "1"},
        g \in {None, Some(<<"Old">>)}, s \in {None, Some("Old #1")}}

InitEnrich ==
    /\ enrichBook \in EnrichedBooks
    /\ enrichEntry \in SyncEntries
    /\ enrichBefore = enrichBook
    /\ enrichPc = "call"
    /\ IdleHash
    /\ IdleParse
    /\ IdleFiles
    /\ IdleBooks
    /\ IdleCalls
    /\ IdleProgress
    /\ IdleCategory
    /\ IdleSync
    /\ IdleLimit
    /\ IdleUpdate

\* the call enrichFromSyncEntry(bookData, syncEntry)
EnrichCall ==
    /\ enrichPc = "call"
    /\ enrichBook' = enrichFromSyncEntry(enrichBook, enrichEntry)
    /\ enrichPc' = "done"
    /\ UNCHANGED <<enrichEntry, enrichBefore, besidesEnrich>>

NextEnrich == EnrichCall

SpecEnrich == InitEnrich /\ [][NextEnrich]_vars

FilledFields == {"author", "description", "category", "favorite"}

\* C10: a call of enrichFromSyncEntry leaves author, description, category and
\* favorite as they were when they were non-empty, and changes one of them only to
\* the entry's non-empty value when it was empty.
FillsOnlyEmptyFields ==
    enrichPc = "done" =>
        \A f \in FilledFields :
            /\ enrichBefore.book[f] # "" => enrichBook.book[f] = enrichBefore.book[f]
            /\ enrichBook.book[f] # enrichBefore.book[f] =>
                   /\ enrichBefore.book[f] = ""
                   /\ enrichEntry[f] # ""
                   /\ enrichBook.book[f] = enrichEntry[f]

FilledAndKept ==
    /\ enrichPc = "done"
    /\ enrichBefore.book.author # ""
    /\ enrichEntry.author # ""
    /\ enrichEntry.author # enrichBefore.book.author
    /\ enrichBefore.book.description = ""
    /\ enrichBook.book.description = "new"
    /\ enrichBefore.book.favorite # ""
    /\ enrichEntry.favorite # ""
    /\ enrichBefore.book.category = ""
    /\ enrichEntry.category # ""

\* a string of 16 or more hexadecimal digits
IsHexString(s) == Len(s) >= 16 /\ \A i \in 1..Len(s) : Ch(s, i) \in HexSet \ {"-"}

\* C11: a call of enrichFromSyncEntry changes the title only to an entry name of at
\* least 3 characters that is not a string of 16 or more hex digits and differs from
\* the title; then previousTitle is the title before the call; otherwise title and
\* previousTitle are as before the call.
TitleOverrideGuarded ==
    enrichPc = "done" =>
        IF enrichBook.book.title # enrichBefore.book.title
        THEN /\ enrichBook.book.title = enrichEntry.bookName
             /\ Len(enrichEntry.bookName) >= 3
             /\ ~IsHexString(enrichEntry.bookName)
             /\ enrichBook.previousTitle = Some(enrichBefore.book.title)
        ELSE enrichBook.previousTitle = enrichBefore.previousTitle

TitleOverridden ==
    /\ enrichPc = "done"
    /\ enrichBefore.book.title = "Dune"
    /\ enrichBook.book.title = "Arrakis"
    /\ enrichBook.previousTitle = Some("Dune")

\* the label of a series name with its number, when parseCategoryField found one
NumberedLabel(parsed) ==
    IF parsed.seriesNumber = None THEN parsed.series[1]
    ELSE parsed.series[1] \o " #" \o FormatNumber(parsed.seriesNumber[1])

\* C13: a call of enrichFromSyncEntry changes genres and series only when they were
\* absent or empty, and then to what parseCategoryField gives for the entry's
\* category: the genres in line order, the series name with the series number.
GenresAndSeriesFromCategory ==
    enrichPc = "done" =>
        LET parsed == parseCategoryField(enrichEntry.category)
        IN  /\ enrichBefore.genres # None => enrichBook.genres = enrichBefore.genres
            /\ enrichBook.genres # enrichBefore.genres =>
                   enrichBook.genres = Some(parsed.genres)
            /\ ~IsFalsy(enrichBefore.series) => enrichBook.series = enrichBefore.series
            /\ enrichBook.series # enrichBefore.series =>
                   /\ parsed.series # None
                   /\ enrichBook.series = Some(NumberedLabel(parsed))

(***************************************************************************)
(* enrichment.ts: enrichBooksWithSyncData with its three loads              *)
(***************************************************************************)
\* parseBooksSyncFile: the loop over the decoded entries; a file that is missing or
\* does not decode gives null
RECURSIVE SyncMapOf(_, _)
SyncMapOf(entries, map) ==
    IF entries = <<>> THEN map
    ELSE SyncMapOf(Tail(entries),
             IF Head(entries).filename # ""
             THEN MapSet(map, FilenameKey(Head(entries).filename), Head(entries))
             ELSE map)

parseBooksSyncFile(file) == IF file = None THEN None ELSE Some(SyncMapOf(file[1], <<>>))

\* scanLocalCovers: f.slice(0, -6) of every name that ends with "_2.png"; a directory
\* that cannot be read gives the empty set
CoverKeys(names) ==
    {FilenameKey(SubSeq(names[n], 1, Len(names[n]) - 6)) :
        n \in {k \in 1..Len(names) : EndsWith(names[k], "_2.png")}}

scanLocalCovers(dir) == IF dir = None THEN {} ELSE CoverKeys(dir[1])

\* fullPath.split("/").pop()
RECURSIVE LastSegment(_)
LastSegment(s) ==
    IF IndexOf(s, "/") < 0 THEN s ELSE LastSegment(SubSeq(s, IndexOf(s, "/") + 2, Len(s)))

\* extractBackupStatistics: the loop over the rows; no backup or a failure gives null
RECURSIVE StatsMapOf(_, _)
StatsMapOf(rows, map) ==
    IF rows = <<>> THEN map
    ELSE LET row == Head(rows)
             basename == FilenameKey(LastSegment(row.filename))
         IN  StatsMapOf(Tail(rows), IF basename # "" THEN MapSet(map, basename, row) ELSE map)

extractBackupStatistics(rows) ==
    IF rows = None THEN None ELSE Some(StatsMapOf(rows[1], <<>>))

AllLoads == {"sync", "covers", "stats"}

\* await Promise.all([...]) resumes
AnyLoadSettled(done) == done # {}

LoadsSettled(done) == done = AllLoads

\* matchedSyncKeys.has(key)
NeverMatched(matched, key) == FALSE

IsMatched(matched, key) == key \in matched

\* optional lookups in the loaded sources
SyncEntryOf(map, key) ==
    IF map # None /\ MapHas(map[1], key) THEN Some(MapGet(map[1], key)) ELSE None
StatsOf(stats, key) ==
    IF stats # None /\ MapHas(stats[1], key) THEN Some(MapGet(stats[1], key)) ELSE None

\* bookData.book.title && bookData.book.author && bookData.book.description
IsSufficient(bookData) ==
    bookData.book.title # "" /\ bookData.book.author # "" /\ bookData.book.description # ""

\* const key = epubFilename.toLowerCase().normalize("NFC")
BookKey(bookData) == FilenameKey(bookData.book.filename)

\* if (booksSyncMap) { const syncEntry = booksSyncMap.get(key); if (syncEntry) ... }
HasEntry(bookData, syncMap) ==
    bookData.book.filename # "" /\ SyncEntryOf(syncMap, BookKey(bookData)) # None

ApplySync(bookData, syncMap) ==
    IF HasEntry(bookData, syncMap)
    THEN enrichFromSyncEntry(bookData, SyncEntryOf(syncMap, BookKey(bookData))[1])
    ELSE bookData

\* if (localCovers.has(key)) bookData.book.coverFile = epubFilename
HasCover(bookData, covers) == bookData.book.filename # "" /\ BookKey(bookData) \in covers

ApplyCover(bookData, covers) ==
    IF HasCover(bookData, covers)
    THEN [bookData EXCEPT !.book.coverFile = bookData.book.filename]
    ELSE bookData

\* if (backupStats) { const stats = backupStats.get(key); if (stats && !bookData.statistics) ... }
TakesStats(bookData, stats) ==
    /\ bookData.book.filename # ""
    /\ StatsOf(stats, BookKey(bookData)) # None
    /\ bookData.statistics = None

ApplyStats(bookData, stats) ==
    IF TakesStats(bookData, stats)
    THEN [bookData EXCEPT !.statistics = StatsOf(stats, BookKey(bookData))]
    ELSE bookData

\* the body of the loop over books for one book
MergeBook(bookData, syncMap, covers, stats) ==
    ApplyStats(ApplyCover(ApplySync(bookData, syncMap), covers), stats)

\* entry.bookName && entry.bookName.length >= 3 && !hash pattern
HasValidBookName(entry) ==
    entry.bookName # "" /\ Len(entry.bookName) >= 3 /\ ~IsHexLike(entry.bookName)

\* the BookData made of an unmatched entry
DiscoveredBook(key, entry, covers, stats) ==
    LET parsed == parseCategoryField(entry.category)
        title == IF HasValidBookName(entry) THEN entry.bookName
                 ELSE Trim(StripExtension(entry.filename, ""))
        book == [NewBook(title, entry.filename) EXCEPT
                    !.author = entry.author,
                    !.description = entry.description,
                    !.category = entry.category,
                    !.coverFile = IF key \in covers THEN entry.filename ELSE "",
                    !.addTime = entry.addTime,
                    !.favorite = entry.favorite]
    IN  [NewBookData(book, None, None, None) EXCEPT
            !.statistics = StatsOf(stats, key),
            !.genres = IF entry.category # "" /\ Len(parsed.genres) > 0
                       THEN Some(parsed.genres) ELSE None,
            !.series = IF entry.category # "" /\ ~IsFalsy(parsed.series)
                       THEN Some(SeriesLabel(parsed)) ELSE None]

\* The calls: the books passed in and what the three sources hold
MaxBooks == 2

DuneEntry ==
    [filename |-> "Dune.epub", bookName |-> "Dune Saga", author |-> "Herbert",
     description |-> "d", category |-> "<Saga>\n#2#\nSciFi", addTime |-> "1",
     favorite |-> "1"]
EmmaEntry ==
    [filename |-> "Emma.epub", bookName |-> "", author |-> "Austen", description |-> "",
     category |-> "", addTime |-> "", favorite |-> ""]
UpperEntry == [DuneEntry EXCEPT !.filename = "DUNE.EPUB", !.author = "FH"]
NamelessEntry == [EmmaEntry EXCEPT !.filename = ""]

SyncFiles ==
    {None, Some(<<>>), Some(<<DuneEntry>>), Some(<<EmmaEntry, DuneEntry>>),
     Some(<<DuneEntry, NamelessEntry, UpperEntry>>)}

CoverDirs ==
    {None, Some(<<"notes.txt">>), Some(<<"Dune.epub_2.png", "x_1.png">>),
     Some(<<"emma.epub_2.png", "dune.epub_2.png">>)}

DuneRow ==
    [id |-> 1, filename |-> "/sdcard/Books/Dune.epub", usedTime |-> 5, readWords |-> 9,
     dates |-> "d"]
BareRow == [id |-> 2, filename |-> "emma.epub", usedTime |-> 0, readWords |-> 0, dates |-> ""]
OldRow == [id |-> 3, filename |-> "/old/Dune.epub", usedTime |-> 1, readWords |-> 1, dates |-> ""]

Backups == {None, Some(<<>>), Some(<<DuneRow, BareRow>>)}

PlainDune == NewBookData(NewBook("Dune", "Dune.epub"), None, None, None)
BooksPassed ==
    {PlainDune,
     [PlainDune EXCEPT !.book.coverFile = "/covers/old.png", !.statistics = Some(OldRow)],
     NewBookData(NewBook("Emma", "emma.epub"), None, None, None),
     NewBookData(NewBook("Lost", ""), None, None, None)}

InitBooks ==
    /\ books \in SeqsUpTo(BooksPassed, MaxBooks)
    /\ booksBefore = books
    /\ trackFlag \in BOOLEAN
    /\ syncFile \in SyncFiles
    /\ coverDir \in CoverDirs
    /\ backup \in Backups
    /\ loaded = {}
    /\ booksSyncMap = None
    /\ localCovers = {}
    /\ backupStats = None
    /\ matchedSyncKeys = {}
    /\ at = 0
    /\ counts = [booksEnriched |-> 0, coversFound |-> 0, statisticsFound |-> 0]
    /\ sufficientMetadata = {}
    /\ booksPc = "load"
    /\ IdleHash
    /\ IdleParse
    /\ IdleFiles
    /\ IdleEnrich
    /\ IdleCalls
    /\ IdleProgress
    /\ IdleCategory
    /\ IdleSync
    /\ IdleLimit
    /\ IdleUpdate

\* parseBooksSyncFile(syncPath) settles
LoadSync ==
    /\ booksPc = "load"
    /\ "sync" \notin loaded
    /\ booksSyncMap' = parseBooksSyncFile(syncFile)
    /\ loaded' = loaded \cup {"sync"}
    /\ UNCHANGED <<books, booksBefore, trackFlag, syncFile, coverDir, backup, localCovers,
                   backupStats, matchedSyncKeys, at, counts, sufficientMetadata, booksPc,
                   besidesBooks>>

\* scanLocalCovers(syncPath) settles
LoadCovers ==
    /\ booksPc = "load"
    /\ "covers" \notin loaded
    /\ localCovers' = scanLocalCovers(coverDir)
    /\ loaded' = loaded \cup {"covers"}
    /\ UNCHANGED <<books, booksBefore, trackFlag, syncFile, coverDir, backup, booksSyncMap,
                   backupStats, matchedSyncKeys, at, counts, sufficientMetadata, booksPc,
                   besidesBooks>>

\* extractBackupStatistics(syncPath, wasmPath) settles
LoadStats ==
    /\ booksPc = "load"
    /\ "stats" \notin loaded
    /\ backupStats' = extractBackupStatistics(backup)
    /\ loaded' = loaded \cup {"stats"}
    /\ UNCHANGED <<books, booksBefore, trackFlag, syncFile, coverDir, backup, booksSyncMap,
                   localCovers, matchedSyncKeys, at, counts, sufficientMetadata, booksPc,
                   besidesBooks>>

\* the await of Promise.all resumes; matchedSyncKeys = new Set(), i = 0
StartMerge ==
    /\ booksPc = "load"
    /\ LoadsSettled(loaded)
    /\ booksPc' = "merge"
    /\ matchedSyncKeys' = {}
    /\ at' = 1
    /\ UNCHANGED <<books, booksBefore, trackFlag, syncFile, coverDir, backup, loaded,
                   booksSyncMap, localCovers, backupStats, counts, sufficientMetadata,
                   besidesBooks>>

\* one iteration of the loop over books
MergeStep ==
    /\ booksPc = "merge"
    /\ at <= Len(books)
    /\ books' = [books EXCEPT ![at] = MergeBook(@, booksSyncMap, localCovers, backupStats)]
    /\ matchedSyncKeys' =
           IF HasEntry(books[at], booksSyncMap)
           THEN matchedSyncKeys \cup {BookKey(books[at])} ELSE matchedSyncKeys
    /\ counts' =
           [booksEnriched |->
                counts.booksEnriched + (IF HasEntry(books[at], booksSyncMap) THEN 1 ELSE 0),
            coversFound |->
                counts.coversFound + (IF HasCover(books[at], localCovers) THEN 1 ELSE 0),
            statisticsFound |->
                counts.statisticsFound + (IF TakesStats(books[at], backupStats) THEN 1 ELSE 0)]
    /\ sufficientMetadata' =
           IF HasEntry(books[at], booksSyncMap) /\ IsSufficient(books'[at])
           THEN sufficientMetadata \cup {at - 1} ELSE sufficientMetadata
    /\ at' = at + 1
    /\ UNCHANGED <<booksBefore, trackFlag, syncFile, coverDir, backup, loaded, booksSyncMap,
                   localCovers, backupStats, booksPc, besidesBooks>>

\* the loop over books has ended; if (trackBooksWithoutHighlights && booksSyncMap)
MergeEnd ==
    /\ booksPc = "merge"
    /\ at > Len(books)
    /\ booksPc' = IF trackFlag /\ booksSyncMap # None THEN "discover" ELSE "done"
    /\ at' = 1
    /\ UNCHANGED <<books, booksBefore, trackFlag, syncFile, coverDir, backup, loaded,
                   booksSyncMap, localCovers, backupStats, matchedSyncKeys, counts,
                   sufficientMetadata, besidesBooks>>

\* one iteration of the loop over the entries of booksSyncMap
DiscoverStep ==
    /\ booksPc = "discover"
    /\ at <= Len(booksSyncMap[1])
    /\ IF IsMatched(matchedSyncKeys, booksSyncMap[1][at].key)
       THEN UNCHANGED <<books, counts, sufficientMetadata>>
       ELSE /\ books' = Append(books, DiscoveredBook(booksSyncMap[1][at].key,
                                                     booksSyncMap[1][at].value,
                                                     localCovers, backupStats))
            /\ counts' =
                   [booksEnriched |-> counts.booksEnriched + 1,
                    coversFound |->
                        counts.coversFound +
                            (IF booksSyncMap[1][at].key \in localCovers THEN 1 ELSE 0),
                    statisticsFound |->
                        counts.statisticsFound +
                            (IF books'[Len(books')].statistics # None THEN 1 ELSE 0)]
            /\ sufficientMetadata' =
                   IF IsSufficient(books'[Len(books')])
                   THEN sufficientMetadata \cup {Len(books)} ELSE sufficientMetadata
    /\ at' = at + 1
    /\ UNCHANGED <<booksBefore, trackFlag, syncFile, coverDir, backup, loaded, booksSyncMap,
                   localCovers, backupStats, matchedSyncKeys, booksPc, besidesBooks>>

\* the loop over the entries has ended: return
DiscoverEnd ==
    /\ booksPc = "discover"
    /\ at > Len(booksSyncMap[1])
    /\ booksPc' = "done"
    /\ UNCHANGED <<books, booksBefore, trackFlag, syncFile, coverDir, backup, loaded,
                   booksSyncMap, localCovers, backupStats, matchedSyncKeys, at, counts,
                   sufficientMetadata, besidesBooks>>

NextBooks ==
    \/ LoadSync \/ LoadCovers \/ LoadStats \/ StartMerge
    \/ MergeStep \/ MergeEnd \/ DiscoverStep \/ DiscoverEnd

SpecBooks == InitBooks /\ [][NextBooks]_vars

\* C12: a record passed to enrichBooksWithSyncData whose coverFile is non-empty, or
\* whose statistics are present, has the same coverFile, or statistics, when the call
\* returns.
CoverAndStatisticsKept ==
    booksPc = "done" =>
        \A n \in 1..Len(booksBefore) :
            /\ booksBefore[n].book.coverFile # "" =>
                   books[n].book.coverFile = booksBefore[n].book.coverFile
            /\ booksBefore[n].statistics # None =>
                   books[n].statistics = booksBefore[n].statistics

\* the filename keys of the records of a list, and of the entries of a sync file
InputKeys(list) ==
    {FilenameKey(list[n].book.filename) :
        n \in {k \in 1..Len(list) : list[k].book.filename # ""}}

EntryKeys(file) ==
    IF file = None THEN {}
    ELSE {FilenameKey(file[1][n].filename) :
             n \in {k \in 1..Len(file[1]) : file[1][k].filename # ""}}

\* C14: when enrichBooksWithSyncData returns, the records passed in are at the indices
\* they had; with trackBooksWithoutHighlights false the list has the length it had; with
\* it true, for every filename key of the sync entries that is the key of no record
\* passed in exactly one record was appended, nothing else was appended, and every
\* appended record has no highlights and null progress, chapter and last-read time.
DiscoveryAppendsUnmatched ==
    booksPc = "done" =>
        /\ Len(books) >= Len(booksBefore)
        /\ \A n \in 1..Len(booksBefore) :
               /\ books[n].book.filename = booksBefore[n].book.filename
               /\ books[n].highlights = booksBefore[n].highlights
        /\ ~trackFlag => Len(books) = Len(booksBefore)
        /\ trackFlag =>
               /\ Len(books) - Len(booksBefore) =
                      Cardinality(EntryKeys(syncFile) \ InputKeys(booksBefore))
               /\ \A key \in EntryKeys(syncFile) \ InputKeys(booksBefore) :
                      Cardinality({n \in (Len(booksBefore) + 1)..Len(books) :
                                      FilenameKey(books[n].book.filename) = key}) = 1
               /\ \A n \in (Len(booksBefore) + 1)..Len(books) :
                      /\ books[n].highlights = <<>>
                      /\ books[n].progress = None
                      /\ books[n].currentChapter = None
                      /\ books[n].lastReadTimestamp = None

\* a call that matched one sync entry to a record passed in and appended a record for
\* another
MatchedAndDiscovered ==
    /\ booksPc = "done"
    /\ trackFlag
    /\ matchedSyncKeys # {}
    /\ Len(booksBefore) >= 1
    /\ Len(books) = Len(booksBefore) + 1

\* C15: the merge of enrichBooksWithSyncData starts only when the three loads have
\* settled; a source that fails is null (sync entries, statistics) or the empty set
\* (covers); and when the call returns, every record passed in with a filename carries
\* what each source that did load holds for its key, whatever became of the other two
\* sources.
LoadsIndependent ==
    /\ booksPc # "load" => loaded = AllLoads
    /\ ("sync" \in loaded /\ syncFile = None) => booksSyncMap = None
    /\ ("covers" \in loaded /\ coverDir = None) => localCovers = {}
    /\ ("stats" \in loaded /\ backup = None) => backupStats = None
    /\ booksPc = "done" =>
           \A n \in {k \in 1..Len(booksBefore) : booksBefore[k].book.filename # ""} :
               /\ BookKey(booksBefore[n]) \in scanLocalCovers(coverDir) =>
                      books[n].book.coverFile = booksBefore[n].book.filename
               /\ ( /\ StatsOf(extractBackupStatistics(backup), BookKey(booksBefore[n])) # None
                    /\ booksBefore[n].statistics = None ) =>
                      books[n].statistics =
                          StatsOf(extractBackupStatistics(backup), BookKey(booksBefore[n]))
               /\ SyncEntryOf(parseBooksSyncFile(syncFile), BookKey(booksBefore[n])) # None =>
                      books[n] =
                          ApplyStats(
                              ApplyCover(
                                  enrichFromSyncEntry(booksBefore[n],
                                      SyncEntryOf(parseBooksSyncFile(syncFile),
                                                  BookKey(booksBefore[n]))[1]),
                                  scanLocalCovers(coverDir)),
                              extractBackupStatistics(backup))

\* a call that returned with the sync file and the backup both failed and a cover set
OnlyCoversLoaded ==
    /\ booksPc = "done"
    /\ syncFile = None
    /\ backup = None
    /\ \E n \in 1..Len(booksBefore) :
           /\ booksBefore[n].book.coverFile = ""
           /\ books[n].book.coverFile = "Dune.epub"

(***************************************************************************)
(* parseAnnotationFiles over a cache in which files fail: an annotation    *)
(* file that cannot be read or inflated, a position file that cannot be    *)
(* read or whose stat fails.                                               *)
(***************************************************************************)
FaultyAnNames == {"Dune.epub.an", "b_1.epub.an", "Gone.epub.an", "Bad.epub.an"}
FaultyPoNames == {"Dune.epub.po", "b_1.epub.po", "Dune.fb2.po", "Dune.azw.po"}

InitFaults ==
    /\ \/ /\ dirReadable = TRUE
          /\ \E a \in OrderedChoices(FaultyAnNames, MaxAn),
                q \in OrderedChoices(FaultyPoNames, MaxPo) :
                 files = a \o q
       \/ /\ dirReadable = FALSE
          /\ files = <<>>
    /\ trackBooksWithoutHighlights \in BOOLEAN
    /\ bookDataMap = <<>>
    /\ filenameToKey = <<>>
    /\ next = 1
    /\ resolved = {}
    /\ result = None
    /\ pc = "readdir"
    /\ IdleHash
    /\ IdleParse
    /\ IdleEnrich
    /\ IdleBooks
    /\ IdleCalls
    /\ IdleProgress
    /\ IdleCategory
    /\ IdleSync
    /\ IdleLimit
    /\ IdleUpdate

SpecFaults == InitFaults /\ [][Next]_vars

\* a file of the cache whose read, decompression or stat fails
Fails(name) ==
    IF IsAn(name)
    THEN ~AnnotationFileAt(name).readable \/ ~AnnotationFileAt(name).data.inflates
    ELSE ~PositionFileAt(name).readable \/ ~PositionFileAt(name).statOk

Succeeds(name) == ~Fails(name)

\* C16: parseAnnotationFiles always returns a list: the empty list when the cache
\* directory cannot be read, and otherwise the list it returns for the same directory
\* without the files whose read, decompression or stat fails.
FailuresSkipOnlyTheFile ==
    pc = "done" =>
        /\ result # None
        /\ ~dirReadable => result = Some(<<>>)
        /\ result = Some(parseAnnotationFiles(SelectSeq(files, Succeeds), dirReadable,
                                              trackBooksWithoutHighlights))

\* a call over an annotation file and a position file that fail and a book whose files
\* do not: the book is returned with its progress
FailedFilesBesideABook ==
    /\ pc = "done"
    /\ \E j, k \in 1..Len(files) : IsAn(files[j]) /\ Fails(files[j])
                                   /\ IsPo(files[k]) /\ Fails(files[k])
    /\ Len(result[1]) = 1
    /\ Len(result[1][1].highlights) > 0
    /\ result[1][1].progress # None

(***************************************************************************)
(* A sequence of calls of parseAnnotationFiles, each over the cache as it  *)
(* is when the call is made.                                               *)
(***************************************************************************)
MaxCalls == 2

CallAnNames == {"Dune.epub.an", "b_1.epub.an"}
CallPoNames == {"Dune.epub.po"}

\* the cache and the flag a call can find
Snapshots ==
    {[files |-> a \o q, dirReadable |-> TRUE, flag |-> f] :
        a \in OrderedChoices(CallAnNames, MaxAn), q \in OrderedChoices(CallPoNames, MaxPo),
        f \in BOOLEAN}
    \cup {[files |-> <<>>, dirReadable |-> FALSE, flag |-> f] : f \in BOOLEAN}

\* a map that outlives the call, in place of const bookDataMap = new Map()
KeptMap(map) == map

\* const bookDataMap = new Map<string, BookData>()
NewMap(map) == <<>>

InitCalls ==
    /\ \E snapshot \in Snapshots :
           /\ files = snapshot.files
           /\ dirReadable = snapshot.dirReadable
           /\ trackBooksWithoutHighlights = snapshot.flag
    /\ bookDataMap = <<>>
    /\ filenameToKey = <<>>
    /\ next = 1
    /\ resolved = {}
    /\ result = None
    /\ pc = "readdir"
    /\ earlier = <<>>
    /\ IdleHash
    /\ IdleParse
    /\ IdleEnrich
    /\ IdleBooks
    /\ IdleProgress
    /\ IdleCategory
    /\ IdleSync
    /\ IdleLimit
    /\ IdleUpdate

\* the call has returned and parseAnnotationFiles is called again
StartCall ==
    /\ pc = "done"
    /\ Len(earlier) + 1 < MaxCalls
    /\ earlier' = Append(earlier, [files |-> files, dirReadable |-> dirReadable,
                                   flag |-> trackBooksWithoutHighlights,
                                   result |-> result[1]])
    /\ \E snapshot \in Snapshots :
           /\ files' = snapshot.files
           /\ dirReadable' = snapshot.dirReadable
           /\ trackBooksWithoutHighlights' = snapshot.flag
    /\ bookDataMap' = NewMap(bookDataMap)
    /\ filenameToKey' = <<>>
    /\ next' = 1
    /\ resolved' = {}
    /\ result' = None
    /\ pc' = "readdir"
    /\ UNCHANGED besidesCalls

NextCalls == Next \/ StartCall

SpecCalls == InitCalls /\ [][NextCalls]_vars

\* the file names of the cache a record can stem from
StemsFrom(bookData, listing) ==
    \E n \in 1..Len(listing) :
        bookData.book.filename \in {StripSuffix(listing[n], ".an"), StripSuffix(listing[n], ".po")}

\* C17: the list a call of parseAnnotationFiles returns is the one the function gives
\* for the cache and the flag of that call alone: it equals the list of every earlier
\* call that found the same cache and flag, and each of its records stems from a file of
\* the cache as it is at this call.
CallsIndependent ==
    pc = "done" =>
        /\ result = Some(parseAnnotationFiles(files, dirReadable, trackBooksWithoutHighlights))
        /\ \A n \in 1..Len(earlier) :
               ( /\ earlier[n].files = files
                 /\ earlier[n].dirReadable = dirReadable
                 /\ earlier[n].flag = trackBooksWithoutHighlights ) =>
                   earlier[n].result = result[1]
        /\ \A n \in 1..Len(result[1]) : StemsFrom(result[1][n], files)

\* a second call that returns a book, after a call that returned another book whose
\* files are gone from the cache
BookGoneFromCache ==
    /\ pc = "done"
    /\ Len(earlier) = 1
    /\ Len(result[1]) > 0
    /\ \E n \in 1..Len(earlier[1].result) : ~StemsFrom(earlier[1].result[n], files)

(***************************************************************************)
(* The fingerprint under edits: between two calls a highlight gets another *)
(* note, another color or another text of the same length, or the list is  *)
(* handed over in another order.                                           *)
(***************************************************************************)
EditNotes == {"", "mine"}
EditColors == {Num(0), Num(5)}
EditTexts == HashTexts \cup {"z", "yz"}

\* the caller keeps the fingerprint and presents the list with one highlight edited
HashEdit ==
    /\ hashOut # None
    /\ hashPrevOut = None
    /\ \E i \in 1..Len(hashIn), note \in EditNotes, color \in EditColors :
           \E text \in {t \in EditTexts : Len(t) = Len(hashIn[i].originalText)} :
               hashIn' = [hashIn EXCEPT ![i] = [@ EXCEPT !.note = note,
                                                         !.highlightColor = color,
                                                         !.originalText = text]]
    /\ hashPrevIn' = hashIn
    /\ hashPrevOut' = hashOut
    /\ hashOut' = None
    /\ UNCHANGED besidesHash

NextEdits == NextHash \/ HashEdit

SpecEdits == InitHash /\ [][NextEdits]_vars

\* what the fingerprint string is made of for one highlight
Triple(h) == <<h.position, h.timestamp, Len(h.originalText)>>

\* the two lists have the same multiset of triples
SameTriples(a, b) ==
    /\ Len(a) = Len(b)
    /\ \E p \in IndexPermutations(Len(a)) : \A i \in 1..Len(a) : Triple(a[i]) = Triple(b[p[i]])

\* C18: two highlight lists with the same multiset of (position, timestamp, text
\* length) have the same fingerprint, whatever their notes, colors and texts are.
HashDependsOnTriplesOnly ==
    (hashOut # None /\ hashPrevOut # None /\ SameTriples(hashIn, hashPrevIn))
        => hashOut = hashPrevOut

(***************************************************************************)
(* parseProgressFile over contents put together from parts that are and    *)
(* are not of the format timestamp*chapter@marker#position:PERCENTAGE%.    *)
(***************************************************************************)
LeadParts == {"", " ", "x"}
TimestampParts == {"17", "", "1a"}
StarParts == {"*", "@"}
ChapterParts == {"5", ""}
MarkerParts == {"@0#", "@#", "@0"}
ColonParts == {"500:", "500"}
PercentageParts == {"40", "63.5", "150.0", ".5", "5.", "1.2.3", "0", "-1"}
TailParts == {"%", "%\n", "% x", "", "%%"}

Contents ==
    {lead \o timestamp \o star \o chapter \o marker \o colon \o percentage \o tail :
        lead \in LeadParts, timestamp \in TimestampParts, star \in StarParts,
        chapter \in ChapterParts, marker \in MarkerParts, colon \in ColonParts,
        percentage \in PercentageParts, tail \in TailParts}

InitProgress ==
    /\ progressIn \in Contents
    /\ progressOut = None
    /\ IdleHash
    /\ IdleParse
    /\ IdleFiles
    /\ IdleEnrich
    /\ IdleBooks
    /\ IdleCalls
    /\ IdleCategory
    /\ IdleSync
    /\ IdleLimit
    /\ IdleUpdate

\* the call parseProgressFile(data) returns
ProgressCall ==
    /\ progressOut = None
    /\ progressOut' = Some(parseProgressFile(progressIn))
    /\ UNCHANGED <<progressIn, besidesProgress>>

NextProgress == ProgressCall

SpecProgress == InitProgress /\ [][NextProgress]_vars

\* the format, read off the separators: the index of the first ch in s, 0 without one
FirstAt(s, ch) ==
    IF \E i \in 1..Len(s) : Ch(s, i) = ch
    THEN CHOOSE i \in 1..Len(s) : Ch(s, i) = ch /\ \A j \in 1..(i - 1) : Ch(s, j) # ch
    ELSE 0

AllDigits(s) == s # "" /\ \A i \in 1..Len(s) : IsDigit(Ch(s, i))

IsDecimal(s) ==
    \/ AllDigits(s)
    \/ \E k \in 2..(Len(s) - 1) :
           /\ Ch(s, k) = "."
           /\ AllDigits(SubSeq(s, 1, k - 1))
           /\ AllDigits(SubSeq(s, k + 1, Len(s)))

Between(s, from, to) == SubSeq(s, from + 1, to - 1)

HasProgressForm(s) ==
    /\ 0 < FirstAt(s, "*")
    /\ FirstAt(s, "*") < FirstAt(s, "@")
    /\ FirstAt(s, "@") < FirstAt(s, "#")
    /\ FirstAt(s, "#") < FirstAt(s, ":")
    /\ Ch(s, Len(s)) = "%"
    /\ AllDigits(Between(s, 0, FirstAt(s, "*")))
    /\ AllDigits(Between(s, FirstAt(s, "*"), FirstAt(s, "@")))
    /\ AllDigits(Between(s, FirstAt(s, "@"), FirstAt(s, "#")))
    /\ AllDigits(Between(s, FirstAt(s, "#"), FirstAt(s, ":")))
    /\ IsDecimal(Between(s, FirstAt(s, ":"), Len(s)))

\* the value of a string of digits, and of digits[.digits] in hundredths
RECURSIVE ValueOf(_)
ValueOf(s) ==
    IF s = "" THEN 0 ELSE ValueOf(SubSeq(s, 1, Len(s) - 1)) * 10 + DigitVal(Ch(s, Len(s)))

DecimalValueOf(s) ==
    IF FirstAt(s, ".") = 0 THEN ValueOf(s) * Hundredths
    ELSE ValueOf(Between(s, 0, FirstAt(s, "."))) * Hundredths
             + ValueOf(SubSeq(Between(s, FirstAt(s, "."), Len(s) + 1) \o "0", 1, 2))

\* C19: parseProgressFile returns a result exactly when the trimmed content is digits,
\* "*", digits, "@", digits, "#", digits, ":", digits with an optional "." and digits,
\* and "%"; the result then holds the first number as timestamp, the second as chapter
\* and the last as progress; any other content returns null.
ProgressFormRecognised ==
    progressOut # None =>
        /\ HasProgressForm(Trim(progressIn)) <=> progressOut[1] # None
        /\ progressOut[1] # None =>
               /\ progressOut[1][1].timestamp =
                      ValueOf(Between(Trim(progressIn), 0, FirstAt(Trim(progressIn), "*")))
               /\ progressOut[1][1].chapter =
                      ValueOf(Between(Trim(progressIn), FirstAt(Trim(progressIn), "*"),
                                      FirstAt(Trim(progressIn), "@")))
               /\ progressOut[1][1].progress =
                      DecimalValueOf(Between(Trim(progressIn), FirstAt(Trim(progressIn), ":"),
                                             Len(Trim(progressIn))))

\* a content with a blank before and a line end after the format, decoded
ProgressDecoded ==
    /\ progressIn = " 17*5@0#500:63.5%\n"
    /\ progressOut = Some(Some([timestamp |-> 17, chapter |-> 5, progress |-> 6350]))

(***************************************************************************)
(* parseAnnotationFiles over a cache with a position file whose percentage *)
(* is above 100.                                                           *)
(***************************************************************************)
OverAnNames == {"Dune.epub.an", "b_1.epub.an"}
OverPoNames == {"Dune.epub.po", "Dune.mobi.po"}

InitOver ==
    /\ \E a \in OrderedChoices(OverAnNames, MaxAn), q \in OrderedChoices(OverPoNames, MaxPo) :
           files = a \o q
    /\ dirReadable = TRUE
    /\ trackBooksWithoutHighlights \in BOOLEAN
    /\ bookDataMap = <<>>
    /\ filenameToKey = <<>>
    /\ next = 1
    /\ resolved = {}
    /\ result = None
    /\ pc = "readdir"
    /\ IdleHash
    /\ IdleParse
    /\ IdleEnrich
    /\ IdleBooks
    /\ IdleCalls
    /\ IdleProgress
    /\ IdleCategory
    /\ IdleSync
    /\ IdleLimit
    /\ IdleUpdate

SpecOver == InitOver /\ [][Next]_vars

\* C20: every record parseAnnotationFiles returns has a null progress or a progress
\* from 0 to 100.
ProgressIsPercentage ==
    pc = "done" =>
        \A n \in 1..Len(result[1]) :
            \/ result[1][n].progress = None
            \/ /\ result[1][n].progress[1] >= 0
               /\ result[1][n].progress[1] <= 100 * Hundredths

(***************************************************************************)
(* parseCategoryField over category strings put together from lines.       *)
(***************************************************************************)
MaxLines == 3

CategoryLines ==
    {"<Saga>", "<>", "<A", "#2#", "#1.5#", "#x#", "#", "SciFi", " Epic ", ""}

RECURSIVE JoinLines(_)
JoinLines(lines) ==
    IF lines = <<>> THEN ""
    ELSE IF Len(lines) = 1 THEN lines[1]
    ELSE lines[1] \o "\n" \o JoinLines(Tail(lines))

InitCategory ==
    /\ categoryIn \in {JoinLines(lines) : lines \in SeqsUpTo(CategoryLines, MaxLines)}
    /\ categoryOut = None
    /\ IdleHash
    /\ IdleParse
    /\ IdleFiles
    /\ IdleEnrich
    /\ IdleBooks
    /\ IdleCalls
    /\ IdleProgress
    /\ IdleSync
    /\ IdleLimit
    /\ IdleUpdate

\* the call parseCategoryField(category) returns
CategoryCall ==
    /\ categoryOut = None
    /\ categoryOut' = Some(parseCategoryField(categoryIn))
    /\ UNCHANGED <<categoryIn, besidesCategory>>

NextCategory == CategoryCall

SpecCategory == InitCategory /\ [][NextCategory]_vars

\* the non-empty trimmed lines of a category string
TrimmedLines(category) == SelectSeq(TrimEach(SplitLines(category, "")), NonEmpty)

\* a line of at least two characters between the two marks
Wrapped(line, open, close) ==
    Len(line) >= 2 /\ Ch(line, 1) = open /\ Ch(line, Len(line)) = close

\* a line that starts and ends with the mark, the mark alone included
Ended(line, mark) == Ch(line, 1) = mark /\ Ch(line, Len(line)) = mark

Inside(line) == SubSeq(line, 2, Len(line) - 1)

IsNumbered(line) == Ended(line, "#") /\ ~IsNaN(ParseNumber(Inside(line)))

\* the last element of a sequence that satisfies Test, or None
LastWhere(lines, Test(_)) ==
    IF \E n \in 1..Len(lines) : Test(lines[n])
    THEN Some(lines[CHOOSE n \in 1..Len(lines) :
                        Test(lines[n]) /\ \A k \in (n + 1)..Len(lines) : ~Test(lines[k])])
    ELSE None

IsSeriesLine(line) == Wrapped(line, "<", ">")
IsHashLine(line) == Wrapped(line, "#", "#")
IsOtherLine(line) == ~IsSeriesLine(line) /\ ~IsHashLine(line)
IsGenreLine(line) == ~IsSeriesLine(line) /\ ~Ended(line, "#")

\* C21 as stated: every non-empty trimmed line of the category is classified: the
\* series name is the inside of the last line wrapped in angle brackets, a line wrapped
\* in hash marks sets the series number, and the genre list is the sequence of all
\* other lines in their order.
EveryLineClassified ==
    categoryOut # None =>
        /\ categoryOut[1].series =
               IF LastWhere(TrimmedLines(categoryIn), IsSeriesLine) = None THEN None
               ELSE Some(Inside(LastWhere(TrimmedLines(categoryIn), IsSeriesLine)[1]))
        /\ LastWhere(TrimmedLines(categoryIn), IsHashLine) # None =>
               categoryOut[1].seriesNumber # None
        /\ categoryOut[1].genres = SelectSeq(TrimmedLines(categoryIn), IsOtherLine)

\* C21 as amended: a line that starts and ends with a hash mark sets the series number
\* when what is between the marks reads as a number and is dropped otherwise; the
\* series name is the inside of the last line wrapped in angle brackets; the genre list
\* is the sequence of all other lines in their order.
NumericLinesClassified ==
    categoryOut # None =>
        /\ categoryOut[1].series =
               IF LastWhere(TrimmedLines(categoryIn), IsSeriesLine) = None THEN None
               ELSE Some(Inside(LastWhere(TrimmedLines(categoryIn), IsSeriesLine)[1]))
        /\ categoryOut[1].seriesNumber =
               IF LastWhere(TrimmedLines(categoryIn), IsNumbered) = None THEN None
               ELSE Some(Val(ParseNumber(
                        Inside(LastWhere(TrimmedLines(categoryIn), IsNumbered)[1]))))
        /\ categoryOut[1].genres = SelectSeq(TrimmedLines(categoryIn), IsGenreLine)

\* a category with a series, a number and a genre that had blanks around it
CategoryClassified ==
    /\ categoryIn = "<Saga>\n#1.5#\n Epic "
    /\ categoryOut = Some([series |-> Some("Saga"), seriesNumber |-> Some(150),
                           genres |-> <<"Epic">>])

(***************************************************************************)
(* parseAnnotationFile over blocks with gaps: fixed lines that are empty,  *)
(* and blocks that the end of the text cuts off inside the fixed lines.    *)
(***************************************************************************)
FixedCount == 10

\* the fixed lines with those outside the mask left empty
GappedLines(mask) ==
    [n \in 1..FixedCount |-> IF mask[n] THEN FixedLines("7", "100")[n] ELSE ""]

GapTexts ==
    {<<"#">> \o GappedLines(mask) \o <<"Fear", "0">> : mask \in [1..FixedCount -> BOOLEAN]}
    \cup {before \o <<"#">> \o SubSeq(FixedLines("7", "100"), 1, k) :
             before \in {<<>>, <<"Moon+">>, FurtherBlock}, k \in 0..(FixedCount - 1)}

InitGaps ==
    /\ curLines \in GapTexts
    /\ curI = 0
    /\ curHighlights = <<>>
    /\ blockSteps = 0
    /\ curPc = "header"
    /\ IdleHash
    /\ IdleFiles
    /\ IdleEnrich
    /\ IdleBooks
    /\ IdleCalls
    /\ IdleProgress
    /\ IdleCategory
    /\ IdleSync
    /\ IdleLimit
    /\ IdleUpdate

SpecGaps == InitGaps /\ [][NextParse]_vars

\* the numbers the fixed lines of FixedLines("7", "100") hold
FixedNumbers == <<7, 0, 0, 0, 3, 0, 100, 20, 1, 17>>

\* what an integer field reads from fixed line n: 0 from an empty line
NumberOrZero(n) == IF curLines[n + 1] = "" THEN Num(0) ELSE Num(FixedNumbers[n])

IsGapped == Len(curLines) = FixedCount + 3 /\ curLines[FixedCount + 2] = "Fear"

\* C22: parseAnnotationFile returns a list for every text that decompressed, and no
\* result only when decompression failed; a block whose fixed lines are empty still
\* gives its highlight, with 0 for each integer field and "" for each string field
\* whose line is empty; a block cut off inside its fixed lines gives no highlight and
\* does not keep the highlights before it from being returned.
GapsReadAsDefaults ==
    curPc = "done" =>
        /\ parseAnnotationFile([inflates |-> TRUE, lines |-> curLines], "Dune.epub.an") =
               Some([filename |-> "Dune.epub.an", bookTitle |-> "Dune",
                     highlights |-> curHighlights])
        /\ parseAnnotationFile([inflates |-> FALSE, lines |-> curLines], "Dune.epub.an") = None
        /\ IsGapped =>
               /\ Len(curHighlights) = 1
               /\ curHighlights[1].id = NumberOrZero(1)
               /\ curHighlights[1].book = (IF curLines[3] = "" THEN "" ELSE "Dune")
               /\ curHighlights[1].filename = curLines[4]
               /\ curHighlights[1].chapter = NumberOrZero(5)
               /\ curHighlights[1].position = NumberOrZero(7)
               /\ curHighlights[1].highlightLength = NumberOrZero(8)
               /\ curHighlights[1].highlightColor = NumberOrZero(9)
               /\ curHighlights[1].timestamp = NumberOrZero(10)
               /\ curHighlights[1].originalText = "Fear"
        /\ ~IsGapped =>
               Len(curHighlights) = (IF Len(curLines) > FixedCount + 1 THEN 1 ELSE 0)

\* a block whose ten fixed lines are all empty, decoded to a highlight of zeros
EmptyFieldsDecoded ==
    /\ curPc = "done"
    /\ IsGapped
    /\ \A n \in 1..FixedCount : curLines[n + 1] = ""
    /\ Len(curHighlights) = 1
    /\ curHighlights[1].id = Num(0)
    /\ curHighlights[1].book = ""
    /\ curHighlights[1].timestamp = Num(0)

(***************************************************************************)
(* hardcover.ts: syncBooksToHardcover.  What Hardcover answers to a search *)
(* and to an update is open: a search finds a book or none, an update      *)
(* succeeds, fails, or reports a bad edition.                              *)
(***************************************************************************)
STATUS_WANT_TO_READ == 1
STATUS_CURRENTLY_READING == 2
STATUS_READ == 3

MaxItems == 2

\* p >= 100 in place of p >= 99
StatusAtHundred(p) ==
    IF p >= 100 * Hundredths THEN STATUS_READ
    ELSE IF p > 0 THEN STATUS_CURRENTLY_READING
    ELSE STATUS_WANT_TO_READ

\* p >= 99 ? STATUS_READ : p > 0 ? STATUS_CURRENTLY_READING : STATUS_WANT_TO_READ
StatusFor(p) ==
    IF p >= 99 * Hundredths THEN STATUS_READ
    ELSE IF p > 0 THEN STATUS_CURRENTLY_READING
    ELSE STATUS_WANT_TO_READ

HasProgressData(b) == b.progress # None

\* books.filter((b) => b.progress !== null)
booksToSync == SelectSeq(hcBooks, HasProgressData)

\* what searchHardcoverBook can return: a match or null
SearchResults == {None, Some([id |-> 7])}

\* what updateHardcoverBook can return
UpdateResults ==
    {[success |-> TRUE, badEdition |-> FALSE], [success |-> FALSE, badEdition |-> TRUE],
     [success |-> FALSE, badEdition |-> FALSE]}

SyncItems ==
    {[title |-> "Dune", author |-> "FH", progress |-> p, hardcoverId |-> h] :
        p \in {None, Some(0), Some(100), Some(4110), Some(9800), Some(9900), Some(10000)},
        h \in {None, Some(5)}}

InitSync ==
    /\ hcBooks \in SeqsUpTo(SyncItems, MaxItems)
    /\ hcAt = 1
    /\ hcSent = <<>>
    /\ hcResult = [booksUpdated |-> 0, booksFailed |-> 0, newIds |-> <<>>,
                   notFoundTitles |-> <<>>]
    /\ hcPc = "sync"
    /\ IdleHash
    /\ IdleParse
    /\ IdleFiles
    /\ IdleEnrich
    /\ IdleBooks
    /\ IdleCalls
    /\ IdleProgress
    /\ IdleCategory
    /\ IdleLimit
    /\ IdleUpdate

Sent(id, book) == [bookId |-> id, statusId |-> StatusFor(book.progress[1]),
                   progress |-> book.progress]

Counted(res, updated) ==
    IF updated.success THEN [res EXCEPT !.booksUpdated = @ + 1]
    ELSE [res EXCEPT !.booksFailed = @ + 1]

\* one iteration of the loop for a book without an id whose search finds nothing
SyncNotFound ==
    /\ hcPc = "sync"
    /\ hcAt <= Len(booksToSync)
    /\ booksToSync[hcAt].hardcoverId = None
    /\ hcResult' = [hcResult EXCEPT !.notFoundTitles = Append(@, booksToSync[hcAt].title)]
    /\ hcAt' = hcAt + 1
    /\ UNCHANGED <<hcBooks, hcSent, hcPc, besidesSync>>

\* one iteration of the loop for a book with an id, from the frontmatter or from the
\* search, whose update does not report a bad edition, or does and the second search
\* finds nothing
SyncUpdate ==
    /\ hcPc = "sync"
    /\ hcAt <= Len(booksToSync)
    /\ \E found \in SearchResults \ {None}, updated \in UpdateResults :
           /\ hcSent' =
                  Append(hcSent,
                         Sent(IF booksToSync[hcAt].hardcoverId = None THEN found[1].id
                              ELSE booksToSync[hcAt].hardcoverId[1], booksToSync[hcAt]))
           /\ hcResult' =
                  Counted(IF booksToSync[hcAt].hardcoverId = None
                          THEN [hcResult EXCEPT !.newIds = Append(@, found[1].id)]
                          ELSE hcResult, updated)
    /\ hcAt' = hcAt + 1
    /\ UNCHANGED <<hcBooks, hcPc, besidesSync>>

\* one iteration of the loop in which the update reports a bad edition and the search
\* for another edition finds one: the update is made again
SyncRetry ==
    /\ hcPc = "sync"
    /\ hcAt <= Len(booksToSync)
    /\ \E found \in SearchResults \ {None}, other \in {[id |-> 8]}, updated \in UpdateResults :
           /\ hcSent' =
                  Append(Append(hcSent,
                                Sent(IF booksToSync[hcAt].hardcoverId = None THEN found[1].id
                                     ELSE booksToSync[hcAt].hardcoverId[1], booksToSync[hcAt])),
                         Sent(other.id, booksToSync[hcAt]))
           /\ hcResult' =
                  Counted([hcResult EXCEPT !.newIds =
                              IF booksToSync[hcAt].hardcoverId = None
                              THEN Append(Append(@, found[1].id), other.id)
                              ELSE Append(@, other.id)], updated)
    /\ hcAt' = hcAt + 1
    /\ UNCHANGED <<hcBooks, hcPc, besidesSync>>

\* the loop has ended, or there was no book to sync: return result
SyncReturn ==
    /\ hcPc = "sync"
    /\ hcAt > Len(booksToSync)
    /\ hcPc' = "done"
    /\ UNCHANGED <<hcBooks, hcAt, hcSent, hcResult, besidesSync>>

NextSync == SyncNotFound \/ SyncUpdate \/ SyncRetry \/ SyncReturn

SpecSync == InitSync /\ [][NextSync]_vars

\* C23: every update syncBooksToHardcover sends is for a book with a progress, with
\* status Want to Read when the progress is 0, Currently Reading when it is from 1 to
\* 98 percent and Read when it is 99 percent or more; a call whose books all lack a
\* progress sends nothing.
StatusFollowsProgress ==
    /\ \A n \in 1..Len(hcSent) :
           /\ hcSent[n].progress # None
           /\ hcSent[n].progress[1] = 0 => hcSent[n].statusId = 1
           /\ ( /\ hcSent[n].progress[1] >= 1 * Hundredths
                /\ hcSent[n].progress[1] <= 98 * Hundredths ) => hcSent[n].statusId = 2
           /\ hcSent[n].progress[1] >= 99 * Hundredths => hcSent[n].statusId = 3
    /\ Len(hcSent) <= 2 * Cardinality({n \in 1..Len(hcBooks) : hcBooks[n].progress # None})

\* a call over a book without progress, sent nothing for, and a book at 99 percent
ReadAtNinetyNine ==
    /\ hcPc = "done"
    /\ Len(hcBooks) = 2
    /\ hcBooks[1].progress = None
    /\ Len(hcSent) = 1
    /\ hcSent[1].progress = Some(9900)
    /\ hcSent[1].statusId = 3

\* C24: in one call of parseAnnotationFiles no position file is resolved and no index
\* entry exists while annotation files are still being taken; once the position files
\* are taken, every annotation file of the listing that was read and decoded has its
\* record in the map, with its highlights, and every such record with a file name is
\* in the filename index.
PositionsAfterAnnotations ==
    /\ pc \in {"readdir", "annotations"} =>
           /\ resolved = {}
           /\ filenameToKey = <<>>
           /\ \A n \in 1..Len(bookDataMap) : bookDataMap[n].value.progress = None
    /\ pc = "positions" =>
           \A f \in DecodedFiles :
               /\ MapHas(bookDataMap, ResolvedTitleKey(f))
               /\ Range(Decoded(f).highlights)
                      \subseteq Range(MapGet(bookDataMap, ResolvedTitleKey(f)).highlights)
               /\ MapGet(bookDataMap, ResolvedTitleKey(f)).book.filename # "" =>
                      MapHas(filenameToKey,
                             FilenameKey(MapGet(bookDataMap, ResolvedTitleKey(f)).book.filename))

\* a position file has been resolved after two annotation files gave two records
ResolvedAfterTwoFiles ==
    /\ pc = "positions"
    /\ next = 2
    /\ resolved # {}
    /\ Cardinality(DecodedFiles) = 2
    /\ Len(bookDataMap) = 2
    /\ Len(filenameToKey) = 2

\* the record a position file goes to when the matchers are tried in the order exact
\* title key, filename index, title key without the " - Author" part
TitleKeyFirst(map, index, poFile) ==
    LET bookTitle == PositionTitle(poFile)
        titleKey == normalizeKey(bookTitle)
        epubFilename == FilenameKey(StripSuffix(poFile, ".po"))
        dashIdx == IndexOf(bookTitle, " - ")
        titleOnlyKey == normalizeKey(Trim(SubSeq(bookTitle, 1, dashIdx)))
    IN  IF MapHas(map, titleKey) THEN titleKey
        ELSE IF MapHas(index, epubFilename) /\ MapHas(map, MapGet(index, epubFilename))
        THEN MapGet(index, epubFilename)
        ELSE IF dashIdx > 0 /\ MapHas(map, titleOnlyKey) THEN titleOnlyKey
        ELSE titleKey

\* C25: every position file is resolved to the record that the first hit among exact
\* title key, filename index and title key without its " - Author" part names; where
\* the exact title key and the filename index name different records, the exact title
\* key decides.
ExactTitleKeyWins ==
    [][(pc = "positions" /\ next' = next + 1) =>
           resolved' \subseteq
               resolved \cup {<<poFiles[next],
                                TitleKeyFirst(bookDataMap, filenameToKey, poFiles[next])>>}]_vars

\* A cache in which two books carry each other's title: the file "Emma.epub.an" holds
\* highlights of the book titled "Persuasion", and "Persuasion.epub.an" those of "Emma".
SwappedAnNames == {"Emma.epub.an", "Persuasion.epub.an", "Dune - FH.mobi.an"}
SwappedPoNames == {"Emma.epub.po", "Dune - FH.mobi.po", "Ren&.epub.po"}

InitSwapped ==
    /\ \E a \in OrderedChoices(SwappedAnNames, MaxAn),
          q \in OrderedChoices(SwappedPoNames, MaxPo) :
           files = a \o q
    /\ dirReadable = TRUE
    /\ trackBooksWithoutHighlights \in BOOLEAN
    /\ bookDataMap = <<>>
    /\ filenameToKey = <<>>
    /\ next = 1
    /\ resolved = {}
    /\ result = None
    /\ pc = "readdir"
    /\ IdleHash
    /\ IdleParse
    /\ IdleEnrich
    /\ IdleBooks
    /\ IdleCalls
    /\ IdleProgress
    /\ IdleCategory
    /\ IdleSync
    /\ IdleLimit
    /\ IdleUpdate

SpecSwapped == InitSwapped /\ [][Next]_vars

(***************************************************************************)
(* hardcover.ts: rateLimitDelay.  Callers are the asynchronous functions   *)
(* that await rateLimitDelay() before each request; a caller that has to   *)
(* wait gives up the thread at the await, and another may enter.           *)
(***************************************************************************)
RateLimitMs == 1100

MaxClock == 3300
MaxRequests == 3

Callers == {1, 2}

\* what the clock can advance by between two steps of the callers
TickSteps == {100, 1000}

InitLimit ==
    /\ clock = RateLimitMs
    /\ lastRequestTime = 0
    /\ waitUntil = [c \in Callers |-> None]
    /\ requestTimes = <<>>
    /\ IdleHash
    /\ IdleParse
    /\ IdleFiles
    /\ IdleEnrich
    /\ IdleBooks
    /\ IdleCalls
    /\ IdleProgress
    /\ IdleCategory
    /\ IdleSync
    /\ IdleUpdate

\* a caller enters rateLimitDelay: with elapsed < 1100 it sets the timer and waits,
\* otherwise it writes lastRequestTime and returns at once
Enter(c) ==
    /\ waitUntil[c] = None
    /\ Len(requestTimes) + Cardinality({d \in Callers : waitUntil[d] # None}) < MaxRequests
    /\ IF clock - lastRequestTime < RateLimitMs
       THEN /\ waitUntil' =
                   [waitUntil EXCEPT ![c] = Some(clock + (RateLimitMs - (clock - lastRequestTime)))]
            /\ UNCHANGED <<lastRequestTime, requestTimes>>
       ELSE /\ lastRequestTime' = clock
            /\ requestTimes' = Append(requestTimes, clock)
            /\ UNCHANGED waitUntil
    /\ UNCHANGED <<clock, besidesLimit>>

\* the timer of a waiting caller has run out: lastRequestTime = Date.now(), return
Wake(c) ==
    /\ waitUntil[c] # None
    /\ clock >= waitUntil[c][1]
    /\ lastRequestTime' = clock
    /\ requestTimes' = Append(requestTimes, clock)
    /\ waitUntil' = [waitUntil EXCEPT ![c] = None]
    /\ UNCHANGED <<clock, besidesLimit>>

\* time passes
Tick ==
    /\ \E step \in TickSteps :
           /\ clock + step <= MaxClock
           /\ clock' = clock + step
    /\ UNCHANGED <<lastRequestTime, waitUntil, requestTimes, besidesLimit>>

EnterAny == \E c \in Callers : Enter(c)

WakeAny == \E c \in Callers : Wake(c)

NextLimit == EnterAny \/ WakeAny \/ Tick

SpecLimit == InitLimit /\ [][NextLimit]_vars

\* C26: any two consecutive requests are at least 1100 ms apart, whatever the order
\* in which the callers of rateLimitDelay enter and wake.
RequestsSpaced ==
    \A n \in 1..(Len(requestTimes) - 1) :
        requestTimes[n + 1] - requestTimes[n] >= 1100

(***************************************************************************)
(* hardcover.ts: updateHardcoverBook and updateProgressForBook.  What      *)
(* Hardcover answers is open: a request fails (hardcoverGraphQL rejects),  *)
(* or answers with a user book or with none.                               *)
(***************************************************************************)
UserBooks == [status_id : {STATUS_WANT_TO_READ, STATUS_CURRENTLY_READING, STATUS_READ},
              edition : BOOLEAN]

Failure == [success |-> FALSE, badEdition |-> FALSE]
BadEdition == [success |-> FALSE, badEdition |-> TRUE]
Success == [success |-> TRUE, badEdition |-> FALSE]

\* every book gets the mutation
InsertsAlways(userBook, statusId) == TRUE

\* !myUserBook || myUserBook.status_id !== statusId
needsStatusChange(userBook, statusId) ==
    userBook = None \/ userBook[1].status_id # statusId

InitUpdate ==
    /\ upStatusId \in {STATUS_WANT_TO_READ, STATUS_CURRENTLY_READING, STATUS_READ}
    /\ upProgress \in {0, 4110, 9900}
    /\ upFound = None
    /\ upInserted = None
    /\ myUserBook = None
    /\ upSent = <<>>
    /\ upReturn = None
    /\ upPc = "find"
    /\ IdleHash
    /\ IdleParse
    /\ IdleFiles
    /\ IdleEnrich
    /\ IdleBooks
    /\ IdleCalls
    /\ IdleProgress
    /\ IdleCategory
    /\ IdleSync
    /\ IdleLimit

\* the catch of updateHardcoverBook
Caught ==
    /\ upReturn' = Some(Failure)
    /\ upPc' = "done"

\* the FIND_USER_BOOK query and the decision on the status
FindUserBook ==
    /\ upPc = "find"
    /\ upSent' = Append(upSent, "find_user_book")
    /\ \/ /\ Caught
          /\ UNCHANGED <<upFound, myUserBook>>
       \/ \E answer \in {None} \cup {Some(b) : b \in UserBooks} :
              /\ upFound' = Some(answer)
              /\ myUserBook' = answer
              /\ upPc' = IF needsStatusChange(answer, upStatusId) THEN "insert" ELSE "progress"
              /\ upReturn' = upReturn
    /\ UNCHANGED <<upStatusId, upProgress, upInserted, besidesUpdate>>

\* the INSERT_USER_BOOK mutation; the user book of the answer has the status asked for
InsertUserBook ==
    /\ upPc = "insert"
    /\ upSent' = Append(upSent, "insert_user_book")
    /\ \/ /\ Caught
          /\ UNCHANGED <<upInserted, myUserBook>>
       \/ \E answer \in {None} \cup {Some(b) : b \in {u \in UserBooks : u.status_id = upStatusId}} :
              /\ upInserted' = Some(answer)
              /\ IF answer # None
                 THEN /\ myUserBook' = answer
                      /\ upPc' = IF answer[1].edition THEN "progress" ELSE "refind"
                      /\ upReturn' = upReturn
                 ELSE IF myUserBook = None
                 THEN /\ upReturn' = Some(BadEdition)
                      /\ upPc' = "done"
                      /\ myUserBook' = myUserBook
                 ELSE /\ upPc' = "progress"
                      /\ UNCHANGED <<myUserBook, upReturn>>
    /\ UNCHANGED <<upStatusId, upProgress, upFound, besidesUpdate>>

\* the second FIND_USER_BOOK query, for the edition the insert answer lacks
RefindUserBook ==
    /\ upPc = "refind"
    /\ upSent' = Append(upSent, "find_user_book")
    /\ \/ /\ Caught
          /\ UNCHANGED myUserBook
       \/ \E fresh \in {None} \cup {Some(b) : b \in UserBooks} :
              /\ myUserBook' = IF fresh # None THEN fresh ELSE myUserBook
              /\ upPc' = "progress"
              /\ upReturn' = upReturn
    /\ UNCHANGED <<upStatusId, upProgress, upFound, upInserted, besidesUpdate>>

\* if (!myUserBook) return bad edition; else updateProgressForBook: nothing is sent for
\* progress <= 0 or without a page count, otherwise the read is updated or inserted
UpdateProgress ==
    /\ upPc = "progress"
    /\ upPc' = "done"
    /\ IF myUserBook = None
       THEN /\ upReturn' = Some(BadEdition)
            /\ upSent' = upSent
       ELSE IF upProgress <= 0
       THEN /\ upReturn' = Some(Success)
            /\ upSent' = upSent
       ELSE \E editionPages \in {0, 300}, mutation \in {"update_user_book_read",
                                                        "insert_user_book_read"},
               answered \in BOOLEAN :
                IF editionPages <= 0
                THEN /\ upReturn' = Some(Success)
                     /\ upSent' = upSent
                ELSE /\ upSent' = Append(upSent, mutation)
                     /\ upReturn' = Some(IF answered THEN Success ELSE Failure)
    /\ UNCHANGED <<upStatusId, upProgress, upFound, upInserted, myUserBook, besidesUpdate>>

NextUpdate == FindUserBook \/ InsertUserBook \/ RefindUserBook \/ UpdateProgress

SpecUpdate == InitUpdate /\ [][NextUpdate]_vars

ProgressMutations == {"update_user_book_read", "insert_user_book_read"}

\* C27: once the first query is answered and the call is past the point of the
\* mutation, insert_user_book has been sent exactly if the answer held no user book or
\* one with another status than the target; with the status already matching it is
\* never sent; and when neither the query nor the mutation gave a user book the call
\* has returned failure with badEdition set, no progress mutation being sent whenever
\* badEdition is returned.
InsertIffStatusDiffers ==
    /\ (upFound # None /\ upPc # "insert") =>
           ("insert_user_book" \in Range(upSent)
                <=> (upFound[1] = None \/ upFound[1][1].status_id # upStatusId))
    /\ (upFound # None /\ upFound[1] # None /\ upFound[1][1].status_id = upStatusId) =>
           "insert_user_book" \notin Range(upSent)
    /\ (upFound = Some(None) /\ upInserted = Some(None)) =>
           /\ upReturn = Some([success |-> FALSE, badEdition |-> TRUE])
           /\ Range(upSent) \cap ProgressMutations = {}
    /\ (upReturn # None /\ upReturn[1].badEdition) =>
           /\ ~upReturn[1].success
           /\ Range(upSent) \cap ProgressMutations = {}

\* a book not in the library, for which the mutation gave no user book
NoUserBookAfterInsert ==
    /\ upPc = "done"
    /\ upFound = Some(None)
    /\ upInserted = Some(None)
    /\ upSent = <<"find_user_book", "insert_user_book">>
    /\ upReturn = Some([success |-> FALSE, badEdition |-> TRUE])

\* how often h occurs in the list hs
Occurrences(hs, h) == Cardinality({n \in 1..Len(hs) : hs[n] = h})

RECURSIVE OccurrencesIn(_, _)
OccurrencesIn(lists, h) ==
    IF lists = <<>> THEN 0
    ELSE Occurrences(Head(lists), h) + OccurrencesIn(Tail(lists), h)

RECURSIVE TotalLength(_)
TotalLength(lists) ==
    IF lists = <<>> THEN 0 ELSE Len(Head(lists)) + TotalLength(Tail(lists))

\* the highlight lists of the annotation files of the listing that were read and
\* decoded: all of them, and those whose title gives the key of a record
DecodedLists ==
    LET decoded == SelectSeq(anFiles, LAMBDA f : f \in DecodedFiles)
    IN  [n \in 1..Len(decoded) |-> Decoded(decoded[n]).highlights]
DecodedListsOf(key) ==
    LET decoded == SelectSeq(anFiles,
                       LAMBDA f : f \in DecodedFiles /\ ResolvedTitleKey(f) = key)
    IN  [n \in 1..Len(decoded) |-> Decoded(decoded[n]).highlights]
ReturnedLists == [n \in 1..Len(result[1]) |-> result[1][n].highlights]

\* C28: the records returned by parseAnnotationFiles hold as many highlights as were
\* decoded from the annotation files that were read and decompressed, and each record
\* holds every highlight exactly as often as the files of its key decoded it, so that
\* each decoded highlight is in one record, once.
HighlightsConserved ==
    (pc = "done" /\ dirReadable) =>
        /\ result = Some(MapValues(bookDataMap))
        /\ TotalLength(ReturnedLists) = TotalLength(DecodedLists)
        /\ \A f \in DecodedFiles : MapHas(bookDataMap, ResolvedTitleKey(f))
        /\ \A r \in 1..Len(bookDataMap) :
               \A h \in Range(bookDataMap[r].value.highlights)
                         \cup UNION {Range(DecodedLists[n]) : n \in 1..Len(DecodedLists)} :
                   Occurrences(bookDataMap[r].value.highlights, h)
                       = OccurrencesIn(DecodedListsOf(bookDataMap[r].key), h)

\* two annotation files of one book, with three highlights between them, returned in
\* one record
ThreeHighlightsOneRecord ==
    /\ pc = "done"
    /\ Cardinality(DecodedFiles) = 2
    /\ \E r \in 1..Len(ReturnedLists) : Len(ReturnedLists[r]) = 3
    /\ TotalLength(DecodedLists) = 3

\* the position files of the listing that were read, decoded and stat-ed
ProgressFiles == {f \in Range(poFiles) : HasProgress(PositionFileAt(f))}

AllNull(bookData) ==
    /\ bookData.progress = None
    /\ bookData.currentChapter = None
    /\ bookData.lastReadTimestamp = None

FromOneFile(bookData) ==
    \E f \in ProgressFiles :
        /\ bookData.progress = Some(parseProgressFile(PositionFileAt(f).data)[1].progress)
        /\ bookData.currentChapter = Some(parseProgressFile(PositionFileAt(f).data)[1].chapter)
        /\ bookData.lastReadTimestamp = Some(PositionFileAt(f).mtimeMs)

\* C29: in every record returned by parseAnnotationFiles, progress, currentChapter and
\* lastReadTimestamp are all null, or all three are the values of one position file of
\* the listing.
ProgressFieldsTogether ==
    pc = "done" =>
        \A n \in 1..Len(result[1]) : AllNull(result[1][n]) \/ FromOneFile(result[1][n])

\* two position files went to one record, which holds the values of one of them, beside
\* a record without progress
TwoPositionsOneRecord ==
    /\ pc = "done"
    /\ \E p, q \in resolved : p[1] # q[1] /\ p[2] = q[2]
    /\ \E n \in 1..Len(result[1]) : AllNull(result[1][n])
    /\ \E n \in 1..Len(result[1]) : ~AllNull(result[1][n]) /\ FromOneFile(result[1][n])

(***************************************************************************)
(* parseAnnotationFile over texts in which the line "#" also stands where  *)
(* a field, a text or a trailer is read, and over blocks the text cuts off *)
(***************************************************************************)
MarkedTails == {"0", "", "Fear", "#"}
CutBlock == <<"#", "8", "Dune.epub">>

CursorTexts ==
    {<<"#">> \o FixedLines(id, "100") \o tail \o further :
        id \in {"7", "#"}, tail \in SeqsUpTo(MarkedTails, MaxTail),
        further \in {<<>>, FurtherBlock, CutBlock, <<"#">>}}

InitCursor ==
    /\ curLines \in CursorTexts \cup SeqsUpTo(ShortLines, MaxShort)
    /\ curI = 0
    /\ curHighlights = <<>>
    /\ blockSteps = 0
    /\ curPc = "header"
    /\ IdleHash
    /\ IdleFiles
    /\ IdleEnrich
    /\ IdleBooks
    /\ IdleCalls
    /\ IdleProgress
    /\ IdleCategory
    /\ IdleSync
    /\ IdleLimit
    /\ IdleUpdate

SpecCursor == InitCursor /\ [][NextParse]_vars

HashLines == {n \in 1..Len(curLines) : curLines[n] = "#"}

\* C30: the cursor of parseAnnotationFile has advanced by at least one line for every
\* iteration of the block loop that has run, so the loop runs at most once per line; the
\* cursor passes the end only inside the fixed lines of a block, which are read with a
\* default, so every field of an emitted highlight is defined; and there are never more
\* highlights than lines equal to "#".
CursorAdvances ==
    /\ curPc \in {"blocks", "done"} => curI >= SkipHeader(curLines, 0) + blockSteps
    /\ blockSteps <= Len(curLines)
    /\ curI <= Len(curLines) + FixedCount
    /\ curPc = "done" => curI >= Len(curLines)
    /\ Len(curHighlights) <= Cardinality(HashLines)
    /\ Len(curHighlights) <= blockSteps
    /\ \A n \in 1..Len(curHighlights) :
           /\ curHighlights[n].originalText \in STRING
           /\ curHighlights[n].note \in STRING
           /\ curHighlights[n].book \in STRING
           /\ curHighlights[n].filename \in STRING

\* the loop has ended after a block cut off inside its fixed lines, the cursor past the
\* end, with fewer highlights than lines equal to "#" and fewer than iterations
CursorPastTheEnd ==
    /\ curPc = "done"
    /\ curI > Len(curLines)
    /\ Len(curHighlights) = 1
    /\ Cardinality(HashLines) = 3
    /\ blockSteps = 3

=============================================================================
